---- MODULE Spec2Model ----
(***************************************************************************)
(* Model of the Graph-RAG core of scilab-rag:                              *)
(*   - GraphRAGStore (app/services/store.py): community detection and the  *)
(*     entity_info / community_summary caches;                             *)
(*   - GraphRAGQueryEngine (app/services/query_engine.py): acustom_query;  *)
(*   - GraphRAGExtractor (app/services/extractor.py): acall / _aextract.   *)
(* The program runs on one asyncio event loop: code between two awaits of  *)
(* a collaborator (LLM, retriever) is atomic, so every action below is one *)
(* such stretch of code, from a resumption to the next suspension.         *)
(***************************************************************************)
EXTENDS FiniteSets, Integers, Sequences, TLC

(***************************************************************************)
(* Bounds of the model.                                                    *)
(***************************************************************************)
NumTasks == 2            \* requests that may be in progress at the same time
MaxTriplets == 2         \* triplets persisted in the graph store
MaxClusterId == 1        \* cluster ids the clustering collaborator may use
MaxAssignments == 2      \* (node, cluster) items one clustering may return

MaxChunks == 5           \* chunks handed to one GraphRAGExtractor.acall

\* GraphRAGExtractor.__init__(num_workers=2): the configured worker count
num_workers == 2

\* acall calls run_jobs(jobs, show_progress, desc=...) without workers=, so
\* llama_index's run_jobs creates its asyncio.Semaphore with its own
\* default, DEFAULT_NUM_WORKERS = 4
run_jobs_workers == 4

Tasks == 1..NumTasks
ClusterIds == 0..MaxClusterId

\* _aextract: EntityNode(name=entity, label=entity_type,
\* properties=entity_metadata), the description stored under the key
\* "entity_description"
EntityNode(entity, entity_type, description) ==
    [name |-> entity, label |-> entity_type,
     properties |-> [entity_description |-> description]]

\* _aextract: Relation(source_id=sub, target_id=obj, label=rel,
\* properties=relation_metadata), the description stored under the key
\* "relation_description"
Relation(sub, obj, rel, description) ==
    [source_id |-> sub, target_id |-> obj, label |-> rel,
     properties |-> [relation_description |-> description]]

\* the triplet <<entity1.name, relation.label, relation.properties,
\* entity2.name>> that get_triplets() returns for a persisted relation;
\* relation.source_id and relation.target_id are the two entity names
Triplet(r) == <<r.source_id, r.label, r.properties, r.target_id>>

\* dict.get(key, default)
PropGet(properties, key, default) ==
    IF key \in DOMAIN properties THEN properties[key] ELSE default

\* the triplets in the order in which ingests persist them
IngestFeed ==
    << Triplet(Relation("A", "B", "uses", "d1")),
       Triplet(Relation("B", "A", "cites", "d2")),
       Triplet(Relation("B", "C", "extends", "d3")) >>

\* graphs on which build_communities is called on its own
BuildFeeds ==
    { << Triplet(Relation("A", "B", "uses", "d1")),
         Triplet(Relation("B", "C", "cites", "d2")) >>,
      << Triplet(Relation("A", "B", "uses", "d1")),
         Triplet(Relation("B", "A", "cites", "d2")) >>,
      << Triplet(Relation("A", "A", "extends", "d3")) >>,
      << Triplet(Relation("A", "B", "uses", "d1")) >> }

\* (node, cluster) items hierarchical_leiden may return in those calls
MaxLevelAssignments == 4

\* Raw texts the LLM collaborator may answer with, as token sequences;
\* "ws" is a run of whitespace.
LLMResponses ==
    { <<"assistant:", "ws", "s1", "ws">> }

(***************************************************************************)
(* Python dicts keep insertion order: a dict is a sequence of <<key,       *)
(* value>> pairs with distinct keys.                                       *)
(***************************************************************************)
DictKeys(d) == { d[i][1] : i \in 1..Len(d) }

DictHas(d, k) == k \in DictKeys(d)

DictIndex(d, k) == CHOOSE i \in 1..Len(d) : d[i][1] = k

DictGet(d, k) == d[DictIndex(d, k)][2]

\* d[k] = v keeps the position of an existing key
DictSet(d, k, v) ==
    IF DictHas(d, k)
    THEN [d EXCEPT ![DictIndex(d, k)] = <<k, v>>]
    ELSE Append(d, <<k, v>>)

EmptyMap == [e \in {} |-> {}]

(***************************************************************************)
(* re.sub(r"^assistant:\s*", "", str(response)).strip()                    *)
(***************************************************************************)
RECURSIVE LStrip(_)
LStrip(s) == IF s # <<>> /\ Head(s) = "ws" THEN LStrip(Tail(s)) ELSE s

RECURSIVE RStrip(_)
RStrip(s) ==
    IF s # <<>> /\ s[Len(s)] = "ws" THEN RStrip(SubSeq(s, 1, Len(s) - 1)) ELSE s

Strip(s) == RStrip(LStrip(s))

CleanResponse(resp) ==
    LET unlabelled ==
            IF resp # <<>> /\ Head(resp) = "assistant:"
            THEN LStrip(Tail(resp))
            ELSE resp
    IN  Strip(unlabelled)

(***************************************************************************)
(* _create_nx_graph: an undirected networkx graph.  nodes and adj keep     *)
(* insertion order; edge maps the unordered pair {u, v} to its attributes  *)
(* <<relationship, description>>.                                          *)
(***************************************************************************)
EmptyGraph == [nodes |-> <<>>, adj |-> EmptyMap, edge |-> EmptyMap]

NodeSet(g) == { g.nodes[i] : i \in 1..Len(g.nodes) }

AddNode(g, n) ==
    IF n \in NodeSet(g) THEN g
    ELSE [g EXCEPT !.nodes = Append(@, n), !.adj = @ @@ (n :> <<>>)]

\* an add_edge that leaves the attributes of an existing edge alone
AddEdgeKeepFirst(g, u, v, attr) ==
    LET g1 == AddNode(AddNode(g, u), v) IN
    IF {u, v} \in DOMAIN g1.edge
    THEN g1
    ELSE LET adj1 == [g1.adj EXCEPT ![u] = Append(@, v)]
             adj2 == IF u = v THEN adj1 ELSE [adj1 EXCEPT ![v] = Append(@, u)]
         IN  [g1 EXCEPT !.adj = adj2, !.edge = @ @@ ({u, v} :> attr)]

\* add_edge(u, v, **attr): an edge that exists gets the new attributes
AddEdge(g, u, v, attr) ==
    LET g1 == AddNode(AddNode(g, u), v) IN
    IF {u, v} \in DOMAIN g1.edge
    THEN [g1 EXCEPT !.edge = [@ EXCEPT ![{u, v}] = attr]]
    ELSE LET adj1 == [g1.adj EXCEPT ![u] = Append(@, v)]
             adj2 == IF u = v THEN adj1 ELSE [adj1 EXCEPT ![v] = Append(@, u)]
         IN  [g1 EXCEPT !.adj = adj2, !.edge = @ @@ ({u, v} :> attr)]

RECURSIVE CreateNxGraphFrom(_, _)
CreateNxGraphFrom(g, trs) ==
    IF trs = <<>> THEN g
    ELSE LET tr == Head(trs)
             g1 == AddNode(AddNode(g, tr[1]), tr[4])
             description == PropGet(tr[3], "relationship_description", "")
         IN  CreateNxGraphFrom(AddEdge(g1, tr[1], tr[4], <<tr[2], description>>),
                               Tail(trs))

create_nx_graph(trs) == CreateNxGraphFrom(EmptyGraph, trs)

(***************************************************************************)
(* hierarchical_leiden, the clustering collaborator: a list of (node,       *)
(* cluster) items, without repetition, that assigns every node of the      *)
(* graph at least one cluster; the items come in the order of the graph's  *)
(* nodes, a node's clusters in increasing order, and the cluster ids in    *)
(* use are numbered from 0 without a gap.                                  *)
(***************************************************************************)
VARIABLE leiden_max     \* items hierarchical_leiden returns at most

NodeIndex(g, n) == CHOOSE i \in 1..Len(g.nodes) : g.nodes[i] = n

ItemBefore(g, a, b) ==
    \/ NodeIndex(g, a[1]) < NodeIndex(g, b[1])
    \/ a[1] = b[1] /\ a[2] < b[2]

Clusterings(g) ==
    LET items == NodeSet(g) \X ClusterIds
        lens  == Cardinality(NodeSet(g))..leiden_max
    IN  { s \in UNION { [1..n -> items] : n \in lens } :
            /\ \A i, j \in 1..Len(s) : i < j => ItemBefore(g, s[i], s[j])
            /\ \A c \in { s[i][2] : i \in 1..Len(s) } :
                 \A b \in 0..c : \E i \in 1..Len(s) : s[i][2] = b
            /\ \A n \in NodeSet(g) : \E i \in 1..Len(s) : s[i][1] = n }

(***************************************************************************)
(* _collect_community_info                                                 *)
(***************************************************************************)
\* a membership map that keeps the last cluster of every node only
collect_last_cluster(clusters) ==
    LET named == { clusters[i][1] : i \in 1..Len(clusters) } IN
    [n \in named |->
        LET last == CHOOSE j \in 1..Len(clusters) :
                        /\ clusters[j][1] = n
                        /\ \A k \in 1..Len(clusters) : clusters[k][1] = n => k <= j
        IN  {clusters[last][2]}]

collect_entity_info(clusters) ==
    LET named == { clusters[i][1] : i \in 1..Len(clusters) } IN
    [n \in named |-> { clusters[i][2] : i \in { j \in 1..Len(clusters) :
                                                  clusters[j][1] = n } }]

RECURSIVE AppendDetails(_, _, _, _, _)
AppendDetails(ci, g, node, cid, nbrs) ==
    IF nbrs = <<>> THEN ci
    ELSE LET nb     == Head(nbrs)
             ed     == g.edge[{node, nb}]
             detail == <<node, nb, ed[1], ed[2]>>
             old    == IF DictHas(ci, cid) THEN DictGet(ci, cid) ELSE <<>>
         IN  AppendDetails(DictSet(ci, cid, Append(old, detail)),
                           g, node, cid, Tail(nbrs))

RECURSIVE CollectFrom(_, _, _)
CollectFrom(ci, g, items) ==
    IF items = <<>> THEN ci
    ELSE LET it == Head(items) IN
         CollectFrom(AppendDetails(ci, g, it[1], it[2], g.adj[it[1]]),
                     g, Tail(items))

\* a collection in which a node adds lines to the first of its clusters only
collect_first_cluster_info(g, clusters) ==
    CollectFrom(<<>>, g,
                SelectSeq(clusters,
                          LAMBDA it : \A c \in ClusterIds :
                              (\E i \in 1..Len(clusters) : clusters[i] = <<it[1], c>>)
                                 => it[2] <= c))

\* a collection that writes no line from a node to itself
collect_without_self_loops(g, clusters) ==
    CollectFrom(<<>>,
                [g EXCEPT !.adj = [n \in DOMAIN g.adj |->
                                     SelectSeq(g.adj[n], LAMBDA m : m # n)]],
                clusters)

collect_community_info(g, clusters) == CollectFrom(<<>>, g, clusters)

(***************************************************************************)
(* get_entities: the retriever returns text nodes; a node's text is a list *)
(* of lines, a line a list of tokens.  The pattern of get_entities matches  *)
(* a whole line "entity -> relation -> entity": both entities are words    *)
(* separated by whitespace, the relation is made of ASCII letters and      *)
(* whitespace only (no digit, no underscore).                              *)
(***************************************************************************)
EntityWords == {"A", "B", "C", "Z"}

AlphaRelations == {"uses", "cites", "extends"}

LineMatches(l) ==
    /\ Len(l) = 5
    /\ l[1] \in EntityWords
    /\ l[2] = "->"
    /\ l[3] \in AlphaRelations
    /\ l[4] = "->"
    /\ l[5] \in EntityWords

RetrievedNodeLists ==
    { << << <<"A", "->", "uses", "->", "B">> >> >>,
      << << <<"A", "uses", "B">>, <<"A", "->", "part_of", "->", "B">> >> >>,
      << << <<"Z", "->", "cites", "->", "A">> >>, << <<"B">> >> >> }

get_entities(nodes_retrieved) ==
    UNION { UNION { {nodes_retrieved[n][i][1], nodes_retrieved[n][i][5]} :
                      i \in { j \in 1..Len(nodes_retrieved[n]) :
                                LineMatches(nodes_retrieved[n][j]) } } :
            n \in 1..Len(nodes_retrieved) }

\* list(a_set): the elements in some order
RECURSIVE ListOf(_)
ListOf(S) ==
    IF S = {} THEN <<>>
    ELSE LET x == CHOOSE x \in S : TRUE IN <<x>> \o ListOf(S \ {x})

\* the loop of retrieve_entity_communities: community_ids.extend(
\* entity_info[entity]) for every entity that is a key of entity_info
RECURSIVE ExtendCommunityIds(_, _, _)
ExtendCommunityIds(community_ids_, ei, ents) ==
    IF ents = <<>> THEN community_ids_
    ELSE ExtendCommunityIds(
             IF Head(ents) \in DOMAIN ei
             THEN community_ids_ \o ListOf(ei[Head(ents)])
             ELSE community_ids_,
             ei, Tail(ents))

\* a lookup that returns the communities of every known entity
retrieve_all_communities(ei, ents) == UNION { ei[e] : e \in DOMAIN ei }

\* list(set(community_ids)), as the set of its elements
retrieve_entity_communities(ei, ents) ==
    LET community_ids_ == ExtendCommunityIds(<<>>, ei, ListOf(ents)) IN
    { community_ids_[i] : i \in 1..Len(community_ids_) }

Fallback == <<"I don't have enough information to answer this question.">>

(***************************************************************************)
(* aggregate_answers: the user message is the f-string "Intermediate       *)
(* answers: {community_answers}", the repr of the list: every answer       *)
(* between quotes, the answers separated by ", ", the whole in brackets.   *)
(***************************************************************************)
RECURSIVE ListRepr(_)
ListRepr(answers) ==
    IF answers = <<>> THEN <<>>
    ELSE <<"'">> \o Head(answers) \o <<"'">> \o
         (IF Len(answers) > 1 THEN <<", ">> ELSE <<>>) \o ListRepr(Tail(answers))

\* a message that carries the first answer only
FirstAnswerContent(community_answers) ==
    <<"Intermediate answers: ", "[">> \o ListRepr(SubSeq(community_answers, 1, 1))
        \o <<"]">>

AggregateUserContent(community_answers) ==
    <<"Intermediate answers: ", "[">> \o ListRepr(community_answers) \o <<"]">>

\* str(response) of a chat response: the role label "assistant:", a blank
\* and the content; the last text is the content alone
ChatTexts ==
    { <<"assistant:", "ws">>,
      <<"assistant:", "ws", "s1">>,
      <<"assistant:", "ws", "s1", "ws", "s2", "ws">>,
      <<"assistant:", "ws", "assistant:", "ws", "s1">>,
      <<"s1", "ws">> }

\* cleaned answers handed to aggregate_answers
AnswerTexts == { <<"s1">>, <<"s1", "ws", "s2">>, <<"s3">>, <<>> }

MaxAnswers == 2

AnswerLists == UNION { [1..n -> AnswerTexts] : n \in 1..MaxAnswers }

(***************************************************************************)
(* State.                                                                  *)
(***************************************************************************)
VARIABLES
    triplets,           \* the persisted graph: get_triplets()
    entity_info,        \* GraphRAGStore.entity_info
    community_summary,  \* GraphRAGStore.community_summary (one dict object)
    pc,                 \* per task: where its coroutine is suspended
    req,                \* per task: the outermost call it is running
    ret,                \* per task: the value its call returned
    community_info,     \* per task: build_communities' local community_info
    sum_pos,            \* per task: position of _summarize_communities' loop
    build_ei,           \* per task: the membership map its build assigned
    build_cs,           \* per task: the summaries its build has stored
    entities,           \* per task: acustom_query's entities
    community_ids,      \* per task: acustom_query's community_ids
    it_pos,             \* per task: position of the iterator over the cache
    it_len,             \* per task: size of the cache when iteration began
    community_answers,  \* per task: acustom_query's community_answers
    calls,              \* per task: collaborator and build calls it issued
    was_empty,          \* per task: the cache was empty when it called
                        \*           get_community_summaries
    response            \* per task: str(response) of the chat call that
                        \*           returned to it last

VARIABLES
    acall_pc,           \* GraphRAGExtractor.acall: idle, gathering, returned, raised
    nodes,              \* acall's argument: the chunks, by identity
    metadata,           \* per chunk: its KG_NODES_KEY and KG_RELATIONS_KEY lists
    job,                \* per chunk: state of its _aextract job under run_jobs
    results,            \* run_jobs: <<position, result>> of the finished jobs,
                        \*           in the order in which they finished
    acall_ret           \* the list acall returned

storeVars == <<triplets, leiden_max, entity_info, community_summary>>

extractVars == <<acall_pc, nodes, metadata, job, results, acall_ret>>

buildVars == <<community_info, sum_pos, build_ei, build_cs>>

queryVars == <<entities, community_ids, it_pos, it_len, community_answers>>

taskVars == <<pc, req, ret, calls, was_empty, response>>

storeSide == <<storeVars, buildVars, queryVars, taskVars>>

VARIABLES
    uploaded_documents, \* rag.py: the dict _uploaded_documents
    files,              \* the temp files that exist: path -> bytes
    temp_count,         \* temp files created so far (a path is never reused)
    http_pc,            \* per /pdf or /ingest request: idle, pipeline, responded
    http_req,           \* per request: endpoint, document id, uploaded bytes
    http_status,        \* per request: status code of its response, 0 if none
    file_path,          \* per request: ingest_to_kg's file_path, or the path
                        \*              of upsert_pdf's temp_file
    old_path            \* per request: upsert_pdf's old_path, 0 if none

registryVars == <<uploaded_documents, files, temp_count, http_pc, http_req,
                  http_status, file_path, old_path>>

VARIABLES
    response_str,       \* the argument of a direct call of parse_fn
    parse_ret           \* what that call returned, NotCalled before it

parseVars == <<response_str, parse_ret>>

VARIABLE nx_graph       \* what a direct call of _create_nx_graph returned

graphVars == <<nx_graph>>

VARIABLES
    existing_tags,      \* AutoTagger.existing_tags
    tags,               \* the argument of a direct call of _remove_duplicate_tags
    unique_tags,        \* what that call returned, NotCalled before it
    tagger_pc,          \* AutoTagger.acall: idle, summarizing, global, tagging, returned
    tag_metadata,       \* per chunk: metadata["summary"] and metadata["tags"]
    summary_job,        \* per chunk: created, inflight, done, failed
    chunk_summaries,    \* what the _summarize_chunk jobs returned, by position
    global_summary,     \* acall's local global_summary
    llm_calls,          \* the llm.apredict calls acall has issued, in order
    tagger_ret          \* how acall ended: none, returned, raised

taggerVars == <<existing_tags, tags, unique_tags, tagger_pc, tag_metadata,
                summary_job, chunk_summaries, global_summary, llm_calls,
                tagger_ret>>

vars == <<storeVars, buildVars, queryVars, taskVars, extractVars, registryVars,
          parseVars, graphVars, taggerVars>>

NoneVal == [kind |-> "none", val |-> <<>>]

Call(op, cid, arg) == [op |-> op, cid |-> cid, arg |-> arg]

CountCalls(log, op) == Cardinality({ i \in 1..Len(log) : log[i].op = op })

\* GraphRAGStore.__init__ and no request in progress
CachesInit ==
    /\ entity_info = EmptyMap
    /\ community_summary = <<>>
    /\ pc = [t \in Tasks |-> "idle"]
    /\ req = [t \in Tasks |-> "none"]
    /\ ret = [t \in Tasks |-> NoneVal]
    /\ community_info = [t \in Tasks |-> <<>>]
    /\ sum_pos = [t \in Tasks |-> 0]
    /\ build_ei = [t \in Tasks |-> EmptyMap]
    /\ build_cs = [t \in Tasks |-> <<>>]
    /\ entities = [t \in Tasks |-> {}]
    /\ community_ids = [t \in Tasks |-> {}]
    /\ it_pos = [t \in Tasks |-> 0]
    /\ it_len = [t \in Tasks |-> 0]
    /\ community_answers = [t \in Tasks |-> <<>>]
    /\ calls = [t \in Tasks |-> <<>>]
    /\ was_empty = [t \in Tasks |-> FALSE]
    /\ response = [t \in Tasks |-> <<>>]

\* an empty graph store
StoreInit ==
    /\ triplets = <<>>
    /\ leiden_max = MaxAssignments
    /\ CachesInit

(***************************************************************************)
(* Continuations shared by the actions.                                    *)
(***************************************************************************)
\* the call of task t ends: it returns val, or raises
Finish(t, how, val, log) ==
    /\ pc' = [pc EXCEPT ![t] = how]
    /\ ret' = [ret EXCEPT ![t] = val]
    /\ calls' = [calls EXCEPT ![t] = log]

\* the collaborator call on which task t is suspended raises and nothing
\* catches it: the call of task t raises
Raise(t) ==
    /\ pc' = [pc EXCEPT ![t] = "raised"]
    /\ calls' = [calls EXCEPT ![t] = Append(@, Call("error", -1, <<>>))]

\* an iteration that answers from every entry of the cache
NextEntry(cs, cids, p) == IF p <= Len(cs) THEN p ELSE 0

\* first position p..Len(cs) of the cache whose id is in cids, 0 if none
NextMatch(cs, cids, p) ==
    LET hits == { q \in p..Len(cs) : cs[q][1] \in cids } IN
    IF hits = {} THEN 0 ELSE CHOOSE q \in hits : \A r \in hits : q <= r

\* acustom_query steps 4 and 5, from position p of the iteration over the
\* cache cs up to the next chat call or the return
AnswerLoop(t, cs, cids, p, len, answers, log) ==
    LET q == NextMatch(cs, cids, p) IN
    /\ it_len' = [it_len EXCEPT ![t] = len]
    /\ community_answers' = [community_answers EXCEPT ![t] = answers]
    /\ IF q # 0
       THEN /\ it_pos' = [it_pos EXCEPT ![t] = q]
            /\ pc' = [pc EXCEPT ![t] = "answering"]
            /\ calls' = [calls EXCEPT ![t] =
                           Append(log, Call("answer", cs[q][1], cs[q][2]))]
            /\ UNCHANGED ret
       ELSE /\ it_pos' = [it_pos EXCEPT ![t] = Len(cs) + 1]
            /\ IF answers = <<>>
               THEN Finish(t, "returned", [kind |-> "text", val |-> Fallback],
                           log)
               ELSE /\ pc' = [pc EXCEPT ![t] = "aggregating"]
                    /\ calls' = [calls EXCEPT ![t] =
                                   Append(log, Call("aggregate", -1,
                                                    AggregateUserContent(answers)))]
                    /\ UNCHANGED ret

\* build_communities has returned to its caller r; cs is the cache now
BuildReturned(t, r, cs, cids, log) ==
    CASE r = "build" ->
           /\ Finish(t, "returned", NoneVal, log)
           /\ UNCHANGED <<it_pos, it_len, community_answers>>
      [] r = "gcs" ->
           /\ Finish(t, "returned", [kind |-> "dict", val |-> cs], log)
           /\ UNCHANGED <<it_pos, it_len, community_answers>>
      [] r = "query" ->
           AnswerLoop(t, cs, cids, 1, Len(cs), <<>>, log)

\* a build that never takes the early return
number_of_nodes_never_zero(g) == FALSE

\* a build that returns early only while the summary cache is empty too
number_of_nodes_is_zero_on_empty_cache(g) ==
    Len(g.nodes) = 0 /\ community_summary = <<>>

\* nx_graph.number_of_nodes() == 0
number_of_nodes_is_zero(g) == Len(g.nodes) = 0

\* build_communities from its entry to the first summarization call
build_communities(t, r, cids, log0) ==
    LET log == Append(log0, Call("build", -1, <<>>))
        g   == create_nx_graph(triplets)
    IN
    IF number_of_nodes_is_zero(g)
    THEN /\ UNCHANGED <<entity_info, community_summary, buildVars>>
         /\ BuildReturned(t, r, community_summary, cids, log)
    ELSE \E clusters \in Clusterings(g) :
           LET ei   == collect_entity_info(clusters)
               ci   == collect_community_info(g, clusters)
               log1 == Append(log, Call("cluster", -1, clusters))
           IN
           /\ entity_info' = ei
           /\ build_ei' = [build_ei EXCEPT ![t] = ei]
           /\ community_info' = [community_info EXCEPT ![t] = ci]
           /\ build_cs' = [build_cs EXCEPT ![t] = <<>>]
           /\ UNCHANGED community_summary
           /\ IF ci = <<>>
              THEN /\ sum_pos' = [sum_pos EXCEPT ![t] = 0]
                   /\ BuildReturned(t, r, community_summary, cids, log1)
              ELSE /\ sum_pos' = [sum_pos EXCEPT ![t] = 1]
                   /\ pc' = [pc EXCEPT ![t] = "summarizing"]
                   /\ calls' = [calls EXCEPT ![t] =
                                  Append(log1, Call("summary", ci[1][1], ci[1][2]))]
                   /\ UNCHANGED <<ret, it_pos, it_len, community_answers>>

\* get_community_summaries without its emptiness test
get_community_summaries_always_builds(t, r, cids, log0) ==
    /\ was_empty' = [was_empty EXCEPT ![t] = (community_summary = <<>>)]
    /\ build_communities(t, r, cids, Append(log0, Call("gcs", -1, <<>>)))

\* get_community_summaries from its entry
get_community_summaries(t, r, cids, log0) ==
    LET log == Append(log0, Call("gcs", -1, <<>>)) IN
    /\ was_empty' = [was_empty EXCEPT ![t] = (community_summary = <<>>)]
    /\ IF community_summary = <<>>
       THEN build_communities(t, r, cids, log)
       ELSE /\ UNCHANGED <<entity_info, community_summary, buildVars>>
            /\ BuildReturned(t, r, community_summary, cids, log)

\* the texts the LLM may give task t: any chat text to a direct call of
\* aggregate_answers, the texts of LLMResponses inside a request
ResponsesTo(t) == IF req[t] = "aggregate" THEN ChatTexts ELSE LLMResponses

Begin(t, r) ==
    /\ pc[t] = "idle"
    /\ \A u \in Tasks : u < t => pc[u] # "idle"   \* idle tasks are interchangeable
    /\ req' = [req EXCEPT ![t] = r]

(***************************************************************************)
(* Actions.                                                                *)
(***************************************************************************)
\* the graph store persists one more triplet (ingest, rag.py)
PersistTriplet ==
    /\ UNCHANGED <<extractVars, registryVars, parseVars, graphVars, taggerVars>>
    /\ Len(triplets) < MaxTriplets
    /\ Len(triplets) < Len(IngestFeed)
    /\ triplets' = Append(triplets, IngestFeed[Len(triplets) + 1])
    /\ UNCHANGED <<leiden_max, entity_info, community_summary, buildVars, queryVars,
                   taskVars>>

\* a caller awaits build_communities()
CallBuild(t) ==
    /\ UNCHANGED <<extractVars, registryVars, parseVars, graphVars, taggerVars>>
    /\ Begin(t, "build")
    /\ build_communities(t, "build", {}, <<>>)
    /\ UNCHANGED <<triplets, leiden_max, entities, community_ids, was_empty, response>>

\* a caller awaits get_community_summaries()
CallGetCommunitySummaries(t) ==
    /\ UNCHANGED <<extractVars, registryVars, parseVars, graphVars, taggerVars>>
    /\ Begin(t, "gcs")
    /\ get_community_summaries(t, "gcs", {}, <<>>)
    /\ UNCHANGED <<triplets, leiden_max, entities, community_ids, response>>

\* a caller awaits acustom_query(); it suspends in retriever.aretrieve
CallQuery(t) ==
    /\ UNCHANGED <<extractVars, registryVars, parseVars, graphVars, taggerVars>>
    /\ Begin(t, "query")
    /\ pc' = [pc EXCEPT ![t] = "retrieving"]
    /\ calls' = [calls EXCEPT ![t] = <<Call("retrieve", -1, <<>>)>>]
    /\ UNCHANGED <<storeVars, buildVars, queryVars, ret, was_empty, response>>

\* aretrieve returns: steps 1-3 of acustom_query, up to the next await
RetrieveReturn(t) ==
    /\ UNCHANGED <<extractVars, registryVars, parseVars, graphVars, taggerVars>>
    /\ pc[t] = "retrieving"
    /\ \E nodes_retrieved \in RetrievedNodeLists :
         LET ents == get_entities(nodes_retrieved)
             cids == retrieve_entity_communities(entity_info, ents)
         IN  /\ entities' = [entities EXCEPT ![t] = ents]
             /\ community_ids' = [community_ids EXCEPT ![t] = cids]
             /\ get_community_summaries(t, "query", cids, calls[t])
    /\ UNCHANGED <<triplets, leiden_max, req, response>>

\* aretrieve raises: acustom_query raises
RetrieveFail(t) ==
    /\ UNCHANGED <<extractVars, registryVars, parseVars, graphVars, taggerVars>>
    /\ pc[t] = "retrieving"
    /\ Raise(t)
    /\ UNCHANGED <<storeVars, buildVars, queryVars, req, ret, was_empty,
                   response>>

\* the summarization chat call returns: store the summary, go on
SummaryReturn(t) ==
    /\ UNCHANGED <<extractVars, registryVars, parseVars, graphVars, taggerVars>>
    /\ pc[t] = "summarizing"
    /\ \E resp \in ResponsesTo(t) :
         LET ci   == community_info[t]
             p    == sum_pos[t]
             cid  == ci[p][1]
             text == CleanResponse(resp)
             cs   == DictSet(community_summary, cid, text)
         IN  /\ community_summary' = cs
             /\ response' = [response EXCEPT ![t] = resp]
             /\ build_cs' = [build_cs EXCEPT ![t] = DictSet(@, cid, text)]
             /\ UNCHANGED <<entity_info, community_info, build_ei>>
             /\ IF p < Len(ci)
                THEN /\ sum_pos' = [sum_pos EXCEPT ![t] = p + 1]
                     /\ calls' = [calls EXCEPT ![t] =
                                    Append(@, Call("summary", ci[p + 1][1],
                                                   ci[p + 1][2]))]
                     /\ UNCHANGED <<pc, ret, it_pos, it_len, community_answers>>
                ELSE /\ sum_pos' = [sum_pos EXCEPT ![t] = p + 1]
                     /\ BuildReturned(t, req[t], cs, community_ids[t], calls[t])
    /\ UNCHANGED <<triplets, leiden_max, entities, community_ids, req, was_empty>>

\* the summarization chat call raises: nothing catches it
SummaryFail(t) ==
    /\ UNCHANGED <<extractVars, registryVars, parseVars, graphVars, taggerVars>>
    /\ pc[t] = "summarizing"
    /\ Raise(t)
    /\ UNCHANGED <<storeVars, buildVars, queryVars, req, ret, was_empty,
                   response>>

\* a per-community chat call returns and the engine stores the answer in
\* the cache entry it was generated from
AnswerReturnCaching(t) ==
    /\ UNCHANGED <<extractVars, registryVars, parseVars, graphVars, taggerVars>>
    /\ pc[t] = "answering"
    /\ \E resp \in ResponsesTo(t) :
         LET answers == Append(community_answers[t], CleanResponse(resp)) IN
         /\ response' = [response EXCEPT ![t] = resp]
         /\ community_summary' =
               [community_summary EXCEPT ![it_pos[t]][2] = <<"answered">>]
         /\ AnswerLoop(t, community_summary, community_ids[t],
                       it_pos[t] + 1, it_len[t], answers, calls[t])
    /\ UNCHANGED <<triplets, leiden_max, entity_info, buildVars, entities,
                   community_ids, req, was_empty>>

\* a per-community chat call returns: next(iterator), then go on
AnswerReturn(t) ==
    /\ UNCHANGED <<extractVars, registryVars, parseVars, graphVars, taggerVars>>
    /\ pc[t] = "answering"
    /\ \E resp \in ResponsesTo(t) :
         LET answers == Append(community_answers[t], CleanResponse(resp)) IN
         /\ response' = [response EXCEPT ![t] = resp]
         /\ IF Len(community_summary) # it_len[t]
            THEN \* RuntimeError: dictionary changed size during iteration
                 /\ pc' = [pc EXCEPT ![t] = "raised"]
                 /\ community_answers' = [community_answers EXCEPT ![t] = answers]
                 /\ UNCHANGED <<ret, calls, it_pos, it_len>>
            ELSE AnswerLoop(t, community_summary, community_ids[t],
                            it_pos[t] + 1, it_len[t], answers, calls[t])
    /\ UNCHANGED <<storeVars, buildVars, entities, community_ids, req,
                   was_empty>>

\* a per-community chat call raises and the loop goes on without it
AnswerSkipped(t) ==
    /\ UNCHANGED <<extractVars, registryVars, parseVars, graphVars, taggerVars>>
    /\ pc[t] = "answering"
    /\ AnswerLoop(t, community_summary, community_ids[t], it_pos[t] + 1,
                  it_len[t], community_answers[t],
                  Append(calls[t], Call("error", -1, <<>>)))
    /\ UNCHANGED <<storeVars, buildVars, entities, community_ids, req,
                   was_empty, response>>

\* a per-community chat call raises
AnswerFail(t) ==
    /\ UNCHANGED <<extractVars, registryVars, parseVars, graphVars, taggerVars>>
    /\ pc[t] = "answering"
    /\ Raise(t)
    /\ UNCHANGED <<storeVars, buildVars, queryVars, req, ret, was_empty,
                   response>>

\* a caller awaits aggregate_answers(community_answers)
CallAggregate(t) ==
    /\ UNCHANGED <<extractVars, registryVars, parseVars, graphVars, taggerVars>>
    /\ Begin(t, "aggregate")
    /\ \E answers \in AnswerLists :
         /\ community_answers' = [community_answers EXCEPT ![t] = answers]
         /\ pc' = [pc EXCEPT ![t] = "aggregating"]
         /\ calls' = [calls EXCEPT ![t] =
                        <<Call("aggregate", -1, AggregateUserContent(answers))>>]
    /\ UNCHANGED <<storeVars, buildVars, entities, community_ids, it_pos,
                   it_len, ret, was_empty, response>>

\* the aggregation chat call returns
AggregateReturn(t) ==
    /\ UNCHANGED <<extractVars, registryVars, parseVars, graphVars, taggerVars>>
    /\ pc[t] = "aggregating"
    /\ \E resp \in ResponsesTo(t) :
         /\ response' = [response EXCEPT ![t] = resp]
         /\ Finish(t, "returned", [kind |-> "text", val |-> CleanResponse(resp)],
                   calls[t])
    /\ UNCHANGED <<storeVars, buildVars, queryVars, req, was_empty>>

\* the aggregation chat call raises
AggregateFail(t) ==
    /\ UNCHANGED <<extractVars, registryVars, parseVars, graphVars, taggerVars>>
    /\ pc[t] = "aggregating"
    /\ Raise(t)
    /\ UNCHANGED <<storeVars, buildVars, queryVars, req, ret, was_empty,
                   response>>

\* the caller has its result; the task is free for the next request
Done(t) ==
    /\ UNCHANGED <<extractVars, registryVars, parseVars, graphVars, taggerVars>>
    /\ pc[t] \in {"returned", "raised"}
    /\ pc' = [pc EXCEPT ![t] = "idle"]
    /\ req' = [req EXCEPT ![t] = "none"]
    /\ ret' = [ret EXCEPT ![t] = NoneVal]
    /\ community_info' = [community_info EXCEPT ![t] = <<>>]
    /\ sum_pos' = [sum_pos EXCEPT ![t] = 0]
    /\ build_ei' = [build_ei EXCEPT ![t] = EmptyMap]
    /\ build_cs' = [build_cs EXCEPT ![t] = <<>>]
    /\ entities' = [entities EXCEPT ![t] = {}]
    /\ community_ids' = [community_ids EXCEPT ![t] = {}]
    /\ it_pos' = [it_pos EXCEPT ![t] = 0]
    /\ it_len' = [it_len EXCEPT ![t] = 0]
    /\ community_answers' = [community_answers EXCEPT ![t] = <<>>]
    /\ calls' = [calls EXCEPT ![t] = <<>>]
    /\ was_empty' = [was_empty EXCEPT ![t] = FALSE]
    /\ response' = [response EXCEPT ![t] = <<>>]
    /\ UNCHANGED storeVars

(***************************************************************************)
(* Direct calls of _create_nx_graph on a graph persisted before.           *)
(***************************************************************************)
MaxGraphTriplets == 3    \* triplets get_triplets() returns in those calls

\* relations as the property graph store returns them: the description
\* under the key _create_nx_graph reads, under the key _aextract writes,
\* between two entities in either direction, and from an entity to itself
GraphTriplets ==
    { <<"A", "uses", [relationship_description |-> "d1"], "B">>,
      <<"B", "cites", [relationship_description |-> "d2"], "A">>,
      Triplet(Relation("A", "B", "extends", "d3")),
      <<"B", "uses", [relationship_description |-> "d4"], "C">>,
      <<"A", "cites", [relationship_description |-> "d5"], "A">> }

GraphFeeds == UNION { [1..n -> GraphTriplets] : n \in 0..MaxGraphTriplets }

NoGraph == [kind |-> "none", graph |-> EmptyGraph]

GraphInit == nx_graph = NoGraph

\* self._create_nx_graph()
CallCreateNxGraph ==
    /\ nx_graph = NoGraph
    /\ nx_graph' = [kind |-> "returned", graph |-> create_nx_graph(triplets)]
    /\ UNCHANGED <<storeSide, extractVars, registryVars, parseVars, taggerVars>>

(***************************************************************************)
(* parse_fn (app/services/utils.py).  An LLM response is a list of tokens  *)
(* [t, v]: a markdown fence ("fence_json", "fence"), free text ("txt"), a  *)
(* brace ("{", "}") or the members of a JSON object ("members", v the      *)
(* decoded object).  A JSON string is a list of pieces of text; the pieces *)
(* "fence_json" and "fence" are the three-backtick fence markers, with and *)
(* without the word json, inside a string.  A JSON object is a function    *)
(* from its keys.                                                          *)
(***************************************************************************)
\* a decoded JSON value: its Python type, what iterating it yields (the
\* elements of a list, the characters of a string, the keys of a dict) and,
\* for a dict, its items; a string that is the value of a key of an element
\* is the list of its pieces
JScalar(type) == [type |-> type, items |-> <<>>, fields |-> <<>>]

JString(n) == [type |-> "str", items |-> [i \in 1..n |-> JScalar("str")],
               fields |-> <<>>]

JObject(fields) ==
    [type |-> "dict",
     items |-> [i \in 1..Cardinality(DOMAIN fields) |-> JScalar("str")],
     fields |-> fields]

JList(items) == [type |-> "list", items |-> items, fields |-> <<>>]

\* the types a for loop can iterate over
Iterables == {"list", "str", "dict"}

\* the JSON text of the members of an object v, a function from its keys
Object(v) == [t |-> "members", v |-> v]

\* the members "entities": [...], "relationships": [...], every element of
\* the two lists an object
Members(es, rs) ==
    Object([entities |-> JList([i \in 1..Len(es) |-> JObject(es[i])]),
            relationships |-> JList([i \in 1..Len(rs) |-> JObject(rs[i])])])

Tok(t) == [t |-> t, v |-> Members(<<>>, <<>>).v]

\* Python's None
None == <<"None">>

FenceMarks == {"fence_json", "fence"}

\* the two re.sub calls that delete the fence markers run over the whole
\* response, the inside of the JSON strings included
StripString(val) == SelectSeq(val, LAMBDA piece : piece \notin FenceMarks)

StripElement(e) ==
    [e EXCEPT !.fields = [k \in DOMAIN e.fields |-> StripString(e.fields[k])]]

StripMembers(v) ==
    [k \in DOMAIN v |->
        [v[k] EXCEPT !.items = [i \in 1..Len(v[k].items) |->
                                   StripElement(v[k].items[i])]]]

RECURSIVE StripFences(_)
StripFences(r) ==
    IF r = <<>> THEN <<>>
    ELSE IF Head(r).t \in FenceMarks
         THEN StripFences(Tail(r))
         ELSE IF Head(r).t = "members"
              THEN <<[Head(r) EXCEPT !.v = StripMembers(@)]>>
                       \o StripFences(Tail(r))
              ELSE <<Head(r)>> \o StripFences(Tail(r))

\* the objects written inside the members v, each with its own braces
InnerObjects(v) ==
    { v[k] : k \in { j \in DOMAIN v : v[j].type = "dict" } }
        \cup UNION { { v[k].items[i] :
                         i \in { j \in 1..Len(v[k].items) :
                                   v[k].items[j].type = "dict" } } :
                     k \in DOMAIN v }

\* how many objects are written inside the members v
InnerCount(v) ==
    Cardinality({ k \in DOMAIN v : v[k].type = "dict" })
        + Cardinality(UNION { { <<k, i>> :
                                  i \in { j \in 1..Len(v[k].items) :
                                            v[k].items[j].type = "dict" } } :
                              k \in DOMAIN v })

\* the token has a brace in its text
HasBrace(tok) ==
    \/ tok.t \in {"{", "}"}
    \/ tok.t = "members" /\ InnerObjects(tok.v) # {}

\* a region that runs from the first "{" to the first "}" that closes it
JsonBlockFirstBalanced(r) ==
    LET opens == { i \in 1..Len(r) : r[i].t = "{" } IN
    IF opens = {} THEN <<>>
    ELSE LET a == CHOOSE i \in opens : \A j \in opens : i <= j
             closes == { i \in a..Len(r) : r[i].t = "}" }
         IN  IF closes = {} THEN <<>>
             ELSE SubSeq(r, a, CHOOSE i \in closes : \A j \in closes : i <= j)

\* re.search(r"\{[\s\S]*\}"): from the first "{" to the last "}" after it;
\* a region that starts or ends at a brace inside the members is cut there
JsonBlock(r) ==
    LET opens == { i \in 1..Len(r) : r[i].t = "{" \/ (r[i].t = "members" /\ HasBrace(r[i])) } IN
    IF opens = {} THEN <<>>
    ELSE LET a == CHOOSE i \in opens : \A j \in opens : i <= j
             closes == { i \in a..Len(r) : r[i].t = "}" \/ (r[i].t = "members" /\ HasBrace(r[i])) }
         IN  IF closes = {} THEN <<>>
             ELSE SubSeq(r, a, CHOOSE i \in closes : \A j \in closes : j <= i)

\* json.loads succeeds on "{" "}", on "{" members "}", and on a region
\* that is the one object written inside the members
Decodable(b) ==
    \/ Len(b) = 2 /\ b[1].t = "{" /\ b[2].t = "}"
    \/ Len(b) = 3 /\ b[1].t = "{" /\ b[2].t = "members" /\ b[3].t = "}"
    \/ Len(b) = 1 /\ b[1].t = "members" /\ InnerCount(b[1].v) = 1

\* data = json.loads(json_str) of a decodable region that has members
Decoded(b) ==
    IF Len(b) = 3 THEN b[2].v
    ELSE LET inner == CHOOSE o \in InnerObjects(b[1].v) : TRUE IN
         [k \in DOMAIN inner.fields |-> JString(Len(inner.fields[k]))]

\* (e.get("entity_name"), e.get("entity_type"), e.get("entity_description"))
EntityTuple(e) ==
    << PropGet(e, "entity_name", None), PropGet(e, "entity_type", None),
       PropGet(e, "entity_description", None) >>

\* (r.get("source_entity"), r.get("target_entity"), r.get("relation"),
\*  r.get("relationship_description"))
RelationshipTuple(r) ==
    << PropGet(r, "source_entity", None), PropGet(r, "target_entity", None),
       PropGet(r, "relation", None),
       PropGet(r, "relationship_description", None) >>

\* parse_fn returns the two lists
Returned(es, rs) ==
    [kind |-> "returned", error |-> "", entities |-> es, relationships |-> rs]

\* parse_fn raises
Raised(error) ==
    [kind |-> "raised", error |-> error, entities |-> <<>>,
     relationships |-> <<>>]

\* for x in value: x.get(...): a value that is not iterable is a TypeError,
\* an element without a get method (anything but a dict) an AttributeError
LoopError(value) ==
    IF value.type \notin Iterables THEN "TypeError"
    ELSE IF \E i \in 1..Len(value.items) : value.items[i].type # "dict"
         THEN "AttributeError"
         ELSE ""

parse_fn(response_str_) ==
    LET b == JsonBlock(StripFences(response_str_)) IN
    IF b = <<>> \/ ~Decodable(b) \/ Len(b) = 2
    THEN Returned(<<>>, <<>>)
    ELSE LET data == Decoded(b)
             es   == PropGet(data, "entities", JList(<<>>))
             rs   == PropGet(data, "relationships", JList(<<>>))
         IN  IF LoopError(es) # "" THEN Raised(LoopError(es))
             ELSE IF LoopError(rs) # "" THEN Raised(LoopError(rs))
             ELSE Returned([i \in 1..Len(es.items) |->
                               EntityTuple(es.items[i].fields)],
                           [i \in 1..Len(rs.items) |->
                               RelationshipTuple(rs.items[i].fields)])

JsonApple ==
    Members(<< [entity_name |-> <<"Apple">>, entity_type |-> <<"Company">>,
                entity_description |-> <<"A technology company">>] >>,
            << [source_entity |-> <<"Apple">>, target_entity |-> <<"California">>,
                relation |-> <<"headquartered_in">>,
                relationship_description |->
                    <<"Apple is based in California">>] >>)

(***************************************************************************)
(* Direct calls of parse_fn.                                               *)
(***************************************************************************)
MaxElements == 2         \* elements of the entities list of a payload

EntityElements ==
    { [entity_name |-> <<"Apple">>, entity_type |-> <<"Company">>,
       entity_description |-> <<"A technology company">>],
      [entity_name |-> <<"Gap">>],
      [entity_name |-> <<"code block">>, entity_type |-> <<"Syntax">>,
       entity_description |-> <<"a block opens with ", "fence", " in markdown">>] }

RelationshipElements ==
    { [source_entity |-> <<"Apple">>, target_entity |-> <<"California">>,
       relation |-> <<"headquartered_in">>,
       relationship_description |-> <<"Apple is based in California">>],
      [source_entity |-> <<"Apple">>, relation |-> <<"makes">>] }

\* well-formed extraction payloads
Payloads ==
    { Members(es, rs) :
        es \in UNION { [1..n -> EntityElements] : n \in 0..MaxElements },
        rs \in UNION { [1..n -> RelationshipElements] : n \in 0..1 } }

\* the payload alone, between markdown fences, and with prose around it
ParseInputs ==
    UNION { { <<Tok("{"), m, Tok("}")>>,
              <<Tok("fence_json"), Tok("{"), m, Tok("}"), Tok("fence")>>,
              <<Tok("txt"), Tok("{"), m, Tok("}"), Tok("txt")>> } :
            m \in Payloads }

\* responses without a brace-delimited region, or whose region json.loads
\* rejects: the empty string, prose, fenced prose, a lone brace, braces in
\* the wrong order, braces around prose, an object cut short, two objects,
\* and an object followed by text with a closing brace
MalformedInputs ==
    { <<>>,
      <<Tok("txt")>>,
      <<Tok("fence_json"), Tok("txt"), Tok("fence")>>,
      <<Tok("{")>>,
      <<Tok("}"), Tok("txt"), Tok("{")>>,
      <<Tok("{"), Tok("txt"), Tok("}")>>,
      <<Tok("fence"), Tok("{"), Tok("txt"), Tok("}"), Tok("fence")>>,
      <<Tok("{"), Members(<<>>, <<>>)>>,
      <<Tok("{"), JsonApple>>,
      <<Tok("fence_json"), Tok("{"), JsonApple, Tok("fence")>>,
      <<Tok("{"), JsonApple, Tok("}"), Tok("{"), JsonApple, Tok("}")>>,
      <<Tok("{"), JsonApple, Tok("}"), Tok("txt"), Tok("}")>> }

\* JSON objects whose entities or relationships value is not a list of
\* objects: null, a number, a string, a list of strings, a list with a
\* number after an object, an object; and objects without the two keys
IllTypedObjects ==
    LET apple == JsonApple.v.entities IN
    { [entities |-> JScalar("null"), relationships |-> JList(<<>>)],
      [entities |-> JScalar("num")],
      [entities |-> JString(2), relationships |-> JList(<<>>)],
      [entities |-> JString(0), relationships |-> JList(<<>>)],
      [entities |-> JList(<<JString(5)>>)],
      [entities |-> JList(apple.items \o <<JScalar("num")>>)],
      [entities |-> JObject([entity_name |-> <<"Apple">>])],
      [entities |-> apple, relationships |-> JScalar("null")],
      [entities |-> apple, relationships |-> JList(<<JScalar("null")>>)],
      [entities |-> apple],
      [relationships |-> JsonApple.v.relationships],
      [other |-> JString(3)] }

IllTypedInputs ==
    UNION { { <<Tok("{"), Object(v), Tok("}")>>,
              <<Tok("fence_json"), Tok("{"), Object(v), Tok("}"), Tok("fence")>> } :
            v \in IllTypedObjects }

\* an object alone, and followed by text that has braces of its own
TrailingInputs ==
    { <<Tok("{"), JsonApple, Tok("}")>>,
      <<Tok("{"), JsonApple, Tok("}"), Tok("txt"), Tok("}")>>,
      <<Tok("{"), JsonApple, Tok("}"), Tok("txt"), Tok("{"), Tok("txt"), Tok("}")>>,
      <<Tok("fence_json"), Tok("{"), JsonApple, Tok("}"), Tok("fence"),
        Tok("txt"), Tok("{"), Tok("}")>> }

NotCalled ==
    [kind |-> "none", error |-> "", entities |-> <<>>, relationships |-> <<>>]

ParseInit ==
    /\ response_str = <<>>
    /\ parse_ret = NotCalled

\* parse_fn(response_str)
CallParseFn ==
    /\ parse_ret = NotCalled
    /\ parse_ret' = parse_fn(response_str)
    /\ UNCHANGED response_str
    /\ UNCHANGED <<storeSide, extractVars, registryVars, graphVars, taggerVars>>

\* texts the LLM may answer an extraction prompt with
ExtractResponses ==
    { <<Tok("fence_json"), Tok("{"), JsonApple, Tok("}"), Tok("fence")>>,
      <<Tok("txt")>>,
      <<Tok("{"), Object([entities |-> JScalar("null")]), Tok("}")>> }

(***************************************************************************)
(* The upload registry (app/api/routers/rag.py): upsert_pdf and            *)
(* ingest_to_kg.  upsert_pdf awaits file.read() before it touches the      *)
(* registry, so the rest of the handler is one step.  ingest_to_kg reads   *)
(* the registry, then runs its pipeline, which suspends in the extraction  *)
(* (run_until_complete under nest_asyncio) and in build_communities, and   *)
(* cleans up when the pipeline has returned.                               *)
(***************************************************************************)
NumRequests == 2         \* /pdf and /ingest requests in progress at a time
MaxUploads == 3          \* temp files created in one run

Requests == 1..NumRequests

Contents == {"pdf1", "pdf2"}

\* the document_id parameter of /pdf: None, or an id given by the client
DocumentIdArgs == {"None", "doc"}

\* sha256(content).hexdigest()[:16]
compute_document_id(content) == IF content = "pdf1" THEN "hash1" ELSE "hash2"

DocumentIds == {"doc"} \cup { compute_document_id(c) : c \in Contents }

NoRequest == [kind |-> "none", document_id |-> "None", content |-> "None"]

\* del d[k]
DictDel(d, k) == SelectSeq(d, LAMBDA kv : kv[1] # k)

\* Path(p).unlink(missing_ok=True), and unlink() of a path that exists
Unlink(fs, p) == [q \in (DOMAIN fs) \ {p} |-> fs[q]]

RegistryInit ==
    /\ uploaded_documents = <<>>
    /\ files = EmptyMap
    /\ temp_count = 0
    /\ http_pc = [r \in Requests |-> "idle"]
    /\ http_req = [r \in Requests |-> NoRequest]
    /\ http_status = [r \in Requests |-> 0]
    /\ file_path = [r \in Requests |-> 0]
    /\ old_path = [r \in Requests |-> 0]

HttpBegin(r, kind, document_id, content) ==
    /\ http_pc[r] = "idle"
    /\ \A q \in Requests : q < r => http_pc[q] # "idle"
    /\ http_req' = [http_req EXCEPT ![r] =
                       [kind |-> kind, document_id |-> document_id,
                        content |-> content]]

Respond(r, status) ==
    /\ http_pc' = [http_pc EXCEPT ![r] = "responded"]
    /\ http_status' = [http_status EXCEPT ![r] = status]

\* POST /pdf with a file that is not a PDF: 400
UploadRejected(r) ==
    /\ \E arg \in DocumentIdArgs, content \in Contents :
         HttpBegin(r, "upload", arg, content)
    /\ Respond(r, 400)
    /\ UNCHANGED <<uploaded_documents, files, temp_count, file_path, old_path>>
    /\ UNCHANGED <<storeSide, extractVars, parseVars, graphVars, taggerVars>>

\* a re-upload that leaves the previous temp file in place
keep_old_path(fs, known, old) == fs

\* if document_id in _uploaded_documents: old_path.unlink() if it exists
unlink_old_path(fs, known, old) == IF known THEN Unlink(fs, old) ELSE fs

\* POST /pdf: upsert_pdf from file.read() on
upsert_pdf(r) ==
    /\ temp_count < MaxUploads
    /\ \E arg \in DocumentIdArgs, content \in Contents :
         LET document_id == IF arg = "None" THEN compute_document_id(content)
                            ELSE arg
             known == DictHas(uploaded_documents, document_id)
             old   == IF known THEN DictGet(uploaded_documents, document_id)
                      ELSE 0
             kept  == unlink_old_path(files, known, old)
             name  == temp_count + 1
         IN  /\ HttpBegin(r, "upload", document_id, content)
             /\ old_path' = [old_path EXCEPT ![r] = old]
             /\ files' = kept @@ (name :> content)
             /\ temp_count' = name
             /\ uploaded_documents' = DictSet(uploaded_documents, document_id, name)
             /\ file_path' = [file_path EXCEPT ![r] = name]
    /\ Respond(r, 200)
    /\ UNCHANGED <<storeSide, extractVars, parseVars, graphVars, taggerVars>>

\* POST /ingest: ingest_to_kg up to the first suspension of its pipeline
IngestStart(r) ==
    /\ \E document_id \in DocumentIds :
         /\ HttpBegin(r, "ingest", document_id, "None")
         /\ IF ~DictHas(uploaded_documents, document_id)
            THEN Respond(r, 404) /\ UNCHANGED file_path
            ELSE LET path == DictGet(uploaded_documents, document_id) IN
                 /\ file_path' = [file_path EXCEPT ![r] = path]
                 /\ IF path \notin DOMAIN files
                    THEN Respond(r, 404)
                    ELSE /\ http_pc' = [http_pc EXCEPT ![r] = "pipeline"]
                         /\ UNCHANGED http_status
    /\ UNCHANGED <<uploaded_documents, files, temp_count, old_path>>
    /\ UNCHANGED <<storeSide, extractVars, parseVars, graphVars, taggerVars>>

\* the pipeline has returned: unlink the file, delete the entry, respond;
\* a KeyError of the del is caught by except Exception: 500
IngestReturn(r) ==
    LET document_id == http_req[r].document_id IN
    /\ http_pc[r] = "pipeline"
    /\ files' = Unlink(files, file_path[r])
    /\ IF DictHas(uploaded_documents, document_id)
       THEN /\ uploaded_documents' = DictDel(uploaded_documents, document_id)
            /\ Respond(r, 200)
       ELSE /\ UNCHANGED uploaded_documents
            /\ Respond(r, 500)
    /\ UNCHANGED <<temp_count, http_req, file_path, old_path>>
    /\ UNCHANGED <<storeSide, extractVars, parseVars, graphVars, taggerVars>>

\* a handler that removes the temp file when a step of the pipeline raises
IngestRaiseUnlinking(r) ==
    /\ http_pc[r] = "pipeline"
    /\ Respond(r, 500)
    /\ files' = Unlink(files, file_path[r])
    /\ UNCHANGED <<uploaded_documents, temp_count, http_req, file_path,
                   old_path>>
    /\ UNCHANGED <<storeSide, extractVars, parseVars, graphVars, taggerVars>>

\* a step of the pipeline raises: except Exception gives 500
IngestRaise(r) ==
    /\ http_pc[r] = "pipeline"
    /\ Respond(r, 500)
    /\ UNCHANGED <<uploaded_documents, files, temp_count, http_req, file_path,
                   old_path>>
    /\ UNCHANGED <<storeSide, extractVars, parseVars, graphVars, taggerVars>>

\* the client has the response
HttpDone(r) ==
    /\ http_pc[r] = "responded"
    /\ http_pc' = [http_pc EXCEPT ![r] = "idle"]
    /\ http_req' = [http_req EXCEPT ![r] = NoRequest]
    /\ http_status' = [http_status EXCEPT ![r] = 0]
    /\ file_path' = [file_path EXCEPT ![r] = 0]
    /\ old_path' = [old_path EXCEPT ![r] = 0]
    /\ UNCHANGED <<uploaded_documents, files, temp_count>>
    /\ UNCHANGED <<storeSide, extractVars, parseVars, graphVars, taggerVars>>

HttpStep(r) ==
    \/ UploadRejected(r)
    \/ upsert_pdf(r)
    \/ IngestStart(r)
    \/ IngestReturn(r)
    \/ IngestRaise(r)
    \/ HttpDone(r)

NextRegistry == \E r \in Requests : HttpStep(r)

\* one /pdf or /ingest request at a time
NextRegistrySolo == HttpStep(1)

(***************************************************************************)
(* AutoTagger (app/services/auto_tagger.py).  A string is the sequence of  *)
(* its characters; " " is the one whitespace character of the model.       *)
(***************************************************************************)
MaxTags == 3             \* tags handed to _remove_duplicate_tags
MaxExistingTags == 1     \* tags in AutoTagger.existing_tags
MaxTagNodes == 3         \* chunks handed to AutoTagger.acall

\* AutoTagger.__init__(num_workers=2), passed to run_jobs as workers=
tagger_num_workers == 2

\* str.lower()
lower(s) ==
    [i \in 1..Len(s) |-> CASE s[i] = "A" -> "a"
                           [] s[i] = "B" -> "b"
                           [] s[i] = "S" -> "s"
                           [] OTHER -> s[i]]

RECURSIVE lstrip(_)
lstrip(s) == IF s # <<>> /\ Head(s) = " " THEN lstrip(Tail(s)) ELSE s

RECURSIVE rstrip(_)
rstrip(s) ==
    IF s # <<>> /\ s[Len(s)] = " " THEN rstrip(SubSeq(s, 1, Len(s) - 1)) ELSE s

\* str.strip()
strip(s) == rstrip(lstrip(s))

\* str.replace(old, new) for one-character old and new
replace(s, old, new) == [i \in 1..Len(s) |-> IF s[i] = old THEN new ELSE s[i]]

\* _is_semantic_duplicate(tag, seen_tags)
is_semantic_duplicate(tag, seen_tags) ==
    \/ tag # <<>> /\ tag[Len(tag)] = "s"
         /\ SubSeq(tag, 1, Len(tag) - 1) \in seen_tags
    \/ Append(tag, "s") \in seen_tags
    \/ \E variant \in { replace(tag, "-", " "), replace(tag, " ", "-"),
                        replace(tag, "_", " "), replace(tag, " ", "_") } :
          variant \in seen_tags

\* the loop over tags of _remove_duplicate_tags
RECURSIVE UniqueFrom(_, _, _)
UniqueFrom(seen, unique, rest) ==
    IF rest = <<>> THEN unique
    ELSE LET tag        == strip(Head(rest))
             normalized == lower(tag)
         IN  IF tag = <<>> \/ normalized \in seen
                \/ is_semantic_duplicate(normalized, seen)
             THEN UniqueFrom(seen, unique, Tail(rest))
             ELSE UniqueFrom(seen \cup {normalized}, Append(unique, tag),
                             Tail(rest))

\* _remove_duplicate_tags(tags) of a tagger with these existing_tags
remove_duplicate_tags(tags_, existing) ==
    IF tags_ = <<>> THEN <<>>
    ELSE UniqueFrom({ lower(strip(existing[i])) : i \in 1..Len(existing) },
                    <<>>, tags_)

\* tags a caller may pass: blank, padded, upper case, plural, and the
\* separators alone and mixed
TagPool ==
    { <<>>, <<"a">>, <<"A">>, <<" ", "a">>, <<"a", "s">>,
      <<"a", "-", "b">>, <<"a", " ", "b">>, <<"a", "_", "b">>,
      <<"a", "-", " ", "b">>, <<"a", " ", " ", "b">> }

TagLists(n) == UNION { [1..k -> TagPool] : k \in 0..n }

NoTags == [kind |-> "none", val |-> <<>>]

\* texts the LLM may answer the chunk and the global summary prompt with
SummaryResponses == { <<"x">>, <<"y", " ">>, <<" ">> }

\* answers to the tag prompt, by what json.loads makes of them: an object
\* with a list under "tags", or anything else
TagResponses ==
    { [kind |-> "tags", tags |-> << <<"a">>, <<"A", " ">>, <<"a", "s">>,
                                    <<" ">>, <<"b">> >>],
      [kind |-> "tags", tags |-> <<>>],
      [kind |-> "other", tags |-> <<>>] }

\* _default_parse_tags(response)
default_parse_tags(resp) ==
    IF resp.kind = "tags"
    THEN LET kept == SelectSeq(resp.tags, LAMBDA tag : strip(tag) # <<>>)
         IN  [i \in 1..Len(kept) |-> strip(kept[i])]
    ELSE <<>>

\* "\n\n".join(valid_summaries)
RECURSIVE Join(_)
Join(texts) ==
    IF texts = <<>> THEN <<>>
    ELSE IF Len(texts) = 1 THEN texts[1]
         ELSE texts[1] \o <<"\n\n">> \o Join(Tail(texts))

\* [s for s in chunk_summaries if s.strip()]
valid_summaries(summaries) == SelectSeq(summaries, LAMBDA t : strip(t) # <<>>)

Unset == [set |-> FALSE, summary |-> <<>>, tags |-> <<>>]

LLMCall(prompt, chunk, context) ==
    [prompt |-> prompt, chunk |-> chunk, context |-> context]

TaggerIdle ==
    /\ tagger_pc = "idle"
    /\ tag_metadata = <<>>
    /\ summary_job = <<>>
    /\ chunk_summaries = <<>>
    /\ global_summary = <<>>
    /\ llm_calls = <<>>
    /\ tagger_ret = "none"

TaggerInit ==
    /\ existing_tags = <<>>
    /\ tags = <<>>
    /\ unique_tags = NoTags
    /\ TaggerIdle

\* tagger._remove_duplicate_tags(tags)
CallRemoveDuplicateTags ==
    /\ unique_tags = NoTags
    /\ unique_tags' = [kind |-> "returned",
                       val |-> remove_duplicate_tags(tags, existing_tags)]
    /\ UNCHANGED <<existing_tags, tags, tagger_pc, tag_metadata, summary_job,
                   chunk_summaries, global_summary, llm_calls, tagger_ret>>
    /\ UNCHANGED <<storeSide, extractVars, registryVars, parseVars, graphVars>>

taggerFrame ==
    <<existing_tags, tags, unique_tags, storeSide, extractVars, registryVars,
      parseVars, graphVars>>

\* acall(nodes): one _summarize_chunk coroutine per chunk, handed to run_jobs
TaggerCall ==
    /\ tagger_pc = "idle"
    /\ \E n \in 0..MaxTagNodes :
         /\ tag_metadata' = [k \in 1..n |-> Unset]
         /\ summary_job' = [k \in 1..n |-> "created"]
         /\ chunk_summaries' = [k \in 1..n |-> <<>>]
         /\ IF n = 0
            THEN tagger_pc' = "returned" /\ tagger_ret' = "returned"
            ELSE tagger_pc' = "summarizing" /\ UNCHANGED tagger_ret
    /\ UNCHANGED <<global_summary, llm_calls, taggerFrame>>

SummariesInFlight ==
    { k \in 1..Len(summary_job) : summary_job[k] = "inflight" }

\* worker k enters the semaphore and runs _summarize_chunk up to llm.apredict
SummarizeStart(k) ==
    /\ tagger_pc = "summarizing"
    /\ k \in 1..Len(summary_job)
    /\ summary_job[k] = "created"
    /\ \A j \in 1..(k - 1) : summary_job[j] # "created"
    /\ Cardinality(SummariesInFlight) < tagger_num_workers
    /\ summary_job' = [summary_job EXCEPT ![k] = "inflight"]
    /\ llm_calls' = Append(llm_calls, LLMCall("chunk", k, <<>>))
    /\ UNCHANGED <<tagger_pc, tag_metadata, chunk_summaries, global_summary,
                   tagger_ret, taggerFrame>>

\* llm.apredict returns: return response.strip()
SummarizeReturn(k) ==
    /\ tagger_pc = "summarizing"
    /\ k \in 1..Len(summary_job)
    /\ summary_job[k] = "inflight"
    /\ \E llm_response \in SummaryResponses :
         chunk_summaries' = [chunk_summaries EXCEPT ![k] = strip(llm_response)]
    /\ summary_job' = [summary_job EXCEPT ![k] = "done"]
    /\ UNCHANGED <<tagger_pc, tag_metadata, global_summary, llm_calls,
                   tagger_ret, taggerFrame>>

\* a _summarize_chunk that lets the error of llm.apredict out
SummarizeFailRaising(k) ==
    /\ tagger_pc = "summarizing"
    /\ k \in 1..Len(summary_job)
    /\ summary_job[k] = "inflight"
    /\ summary_job' = [summary_job EXCEPT ![k] = "failed"]
    /\ tagger_pc' = "returned"
    /\ tagger_ret' = "raised"
    /\ UNCHANGED <<tag_metadata, chunk_summaries, global_summary, llm_calls,
                   taggerFrame>>

\* llm.apredict raises: except Exception returns ""
SummarizeFail(k) ==
    /\ tagger_pc = "summarizing"
    /\ k \in 1..Len(summary_job)
    /\ summary_job[k] = "inflight"
    /\ summary_job' = [summary_job EXCEPT ![k] = "failed"]
    /\ chunk_summaries' = [chunk_summaries EXCEPT ![k] = <<>>]
    /\ UNCHANGED <<tagger_pc, tag_metadata, global_summary, llm_calls,
                   tagger_ret, taggerFrame>>

\* steps 4 and 5 of acall: remove the duplicates, attach the summary and
\* the tags to the first node, return the nodes
AttachTags(summary, generated) ==
    /\ tag_metadata' = [tag_metadata EXCEPT ![1] =
                           [set |-> TRUE, summary |-> summary,
                            tags |-> remove_duplicate_tags(generated,
                                                           existing_tags)]]
    /\ global_summary' = summary
    /\ tagger_pc' = "returned"
    /\ tagger_ret' = "returned"

\* _generate_tags(summary) up to llm.apredict; an empty summary gives []
\* without a call
GenerateTags(summary, log) ==
    IF strip(summary) = <<>>
    THEN AttachTags(summary, <<>>) /\ llm_calls' = log
    ELSE /\ llm_calls' = Append(log, LLMCall("tags", 0, summary))
         /\ global_summary' = summary
         /\ tagger_pc' = "tagging"
         /\ UNCHANGED <<tag_metadata, tagger_ret>>

\* run_jobs has returned: _create_global_summary up to llm.apredict; with
\* no valid summary it returns "" without a call
SummariesGathered ==
    /\ tagger_pc = "summarizing"
    /\ \A k \in 1..Len(summary_job) : summary_job[k] \in {"done", "failed"}
    /\ LET valid == valid_summaries(chunk_summaries) IN
       IF valid = <<>>
       THEN GenerateTags(<<>>, llm_calls)
       ELSE /\ llm_calls' = Append(llm_calls, LLMCall("global", 0, Join(valid)))
            /\ tagger_pc' = "global"
            /\ UNCHANGED <<tag_metadata, global_summary, tagger_ret>>
    /\ UNCHANGED <<summary_job, chunk_summaries, taggerFrame>>

\* the global summary call returns: response.strip(), then _generate_tags
GlobalSummaryReturn ==
    /\ tagger_pc = "global"
    /\ \E llm_response \in SummaryResponses :
         GenerateTags(strip(llm_response), llm_calls)
    /\ UNCHANGED <<summary_job, chunk_summaries, taggerFrame>>

\* the global summary call raises: "" is returned, then _generate_tags
GlobalSummaryFail ==
    /\ tagger_pc = "global"
    /\ GenerateTags(<<>>, llm_calls)
    /\ UNCHANGED <<summary_job, chunk_summaries, taggerFrame>>

\* the tag call returns: _default_parse_tags(response)
TagsReturn ==
    /\ tagger_pc = "tagging"
    /\ \E llm_response \in TagResponses :
         AttachTags(global_summary, default_parse_tags(llm_response))
    /\ UNCHANGED <<summary_job, chunk_summaries, llm_calls, taggerFrame>>

\* the tag call raises: except Exception returns []
TagsFail ==
    /\ tagger_pc = "tagging"
    /\ AttachTags(global_summary, <<>>)
    /\ UNCHANGED <<summary_job, chunk_summaries, llm_calls, taggerFrame>>

\* the caller has the nodes
TaggerDone ==
    /\ tagger_pc = "returned"
    /\ tagger_pc' = "idle"
    /\ tag_metadata' = <<>>
    /\ summary_job' = <<>>
    /\ chunk_summaries' = <<>>
    /\ global_summary' = <<>>
    /\ llm_calls' = <<>>
    /\ tagger_ret' = "none"
    /\ UNCHANGED taggerFrame

NextTagger ==
    \/ TaggerCall
    \/ \E k \in 1..MaxTagNodes :
          \/ SummarizeStart(k)
          \/ SummarizeReturn(k)
          \/ SummarizeFail(k)
    \/ SummariesGathered
    \/ GlobalSummaryReturn
    \/ GlobalSummaryFail
    \/ TagsReturn
    \/ TagsFail
    \/ TaggerDone

(***************************************************************************)
(* GraphRAGExtractor                                                       *)
(***************************************************************************)
ChunkId(k) == 100 + k

\* the first chunk already carries a record of an earlier extractor
InitialMetadata(k) ==
    IF k = 1
    THEN [kg_nodes |-> << EntityNode(<<"Pre">>, <<"Concept">>, <<"old">>) >>,
          kg_rels  |-> <<>>]
    ELSE [kg_nodes |-> <<>>, kg_rels |-> <<>>]

ExtractInit ==
    /\ acall_pc = "idle"
    /\ nodes = <<>>
    /\ metadata = <<>>
    /\ job = <<>>
    /\ results = <<>>
    /\ acall_ret = <<>>

Init ==
    /\ StoreInit
    /\ ExtractInit
    /\ RegistryInit
    /\ ParseInit
    /\ GraphInit
    /\ TaggerInit

\* a caller has a persisted graph to convert
InitGraph ==
    /\ triplets \in GraphFeeds
    /\ leiden_max = MaxAssignments
    /\ CachesInit
    /\ ExtractInit
    /\ RegistryInit
    /\ ParseInit
    /\ GraphInit
    /\ TaggerInit

\* a caller has a response to parse
InitParse ==
    /\ StoreInit
    /\ ExtractInit
    /\ RegistryInit
    /\ GraphInit
    /\ TaggerInit
    /\ response_str \in ParseInputs \cup MalformedInputs \cup IllTypedInputs
                           \cup TrailingInputs
    /\ parse_ret = NotCalled

InFlight == { k \in 1..Len(nodes) : job[k] = "inflight" }

\* what run_jobs returns once every job has finished: asyncio.gather keeps
\* the order of its arguments (tqdm's gather sorts by position)
GatherInCompletionOrder(res) == [k \in 1..Len(res) |-> res[k][2]]

GatherResults(res) ==
    [k \in 1..Len(res) |-> res[CHOOSE i \in 1..Len(res) : res[i][1] = k][2]]

\* an _aextract that sets the chunk's two lists to the new records
AttachReplacing(meta, parsed) ==
    [kg_nodes |->
        [i \in 1..Len(parsed.entities) |->
            EntityNode(parsed.entities[i][1], parsed.entities[i][2],
                       parsed.entities[i][3])],
     kg_rels |->
        [i \in 1..Len(parsed.relationships) |->
            Relation(parsed.relationships[i][1], parsed.relationships[i][2],
                     parsed.relationships[i][3], parsed.relationships[i][4])]]

\* _aextract after the try block: attach the parsed records to the chunk
Attach(meta, parsed) ==
    [kg_nodes |-> meta.kg_nodes \o
        [i \in 1..Len(parsed.entities) |->
            EntityNode(parsed.entities[i][1], parsed.entities[i][2],
                       parsed.entities[i][3])],
     kg_rels |-> meta.kg_rels \o
        [i \in 1..Len(parsed.relationships) |->
            Relation(parsed.relationships[i][1], parsed.relationships[i][2],
                     parsed.relationships[i][3], parsed.relationships[i][4])]]

\* job k returns its chunk; run_jobs returns when it was the last one
JobReturns(k, meta) ==
    LET res == Append(results, <<k, nodes[k]>>) IN
    /\ metadata' = [metadata EXCEPT ![k] = meta]
    /\ job' = [job EXCEPT ![k] = "done"]
    /\ results' = res
    /\ IF acall_pc = "gathering" /\ Len(res) = Len(nodes)
       THEN /\ acall_pc' = "returned"
            /\ acall_ret' = GatherResults(res)
       ELSE UNCHANGED <<acall_pc, acall_ret>>

\* acall(nodes): one _aextract coroutine per chunk, handed to run_jobs
AcallStart ==
    /\ acall_pc = "idle"
    /\ \E n \in 0..MaxChunks :
         /\ nodes' = [k \in 1..n |-> ChunkId(k)]
         /\ metadata' = [k \in 1..n |-> InitialMetadata(k)]
         /\ job' = [k \in 1..n |-> "created"]
         /\ acall_pc' = IF n = 0 THEN "returned" ELSE "gathering"
    /\ UNCHANGED <<results, acall_ret, storeSide, registryVars, parseVars, graphVars, taggerVars>>

\* worker k enters the semaphore and runs _aextract up to llm.apredict;
\* the event loop starts the workers, and wakes waiters, in list order
JobStart(k) ==
    /\ k \in 1..Len(nodes)
    /\ job[k] = "created"
    /\ \A j \in 1..(k - 1) : job[j] # "created"
    /\ Cardinality(InFlight) < run_jobs_workers
    /\ job' = [job EXCEPT ![k] = "inflight"]
    /\ UNCHANGED <<acall_pc, nodes, metadata, results, acall_ret, storeSide, registryVars, parseVars, graphVars, taggerVars>>

\* llm.apredict returns a text
ExtractReturn(k) ==
    /\ k \in 1..Len(nodes)
    /\ job[k] = "inflight"
    /\ \E llm_response \in ExtractResponses :
         LET parsed == parse_fn(llm_response) IN
         IF parsed.kind = "raised"
         THEN \* a TypeError or AttributeError is no ValueError
              /\ job' = [job EXCEPT ![k] = "failed"]
              /\ acall_pc' = IF acall_pc = "gathering" THEN "raised"
                             ELSE acall_pc
              /\ UNCHANGED <<metadata, results, acall_ret>>
         ELSE JobReturns(k, Attach(metadata[k], parsed))
    /\ UNCHANGED <<nodes, storeSide, registryVars, parseVars, graphVars, taggerVars>>

\* llm.apredict raises a ValueError: except ValueError gives empty lists
ExtractValueError(k) ==
    /\ k \in 1..Len(nodes)
    /\ job[k] = "inflight"
    /\ JobReturns(k, Attach(metadata[k], Returned(<<>>, <<>>)))
    /\ UNCHANGED <<nodes, storeSide, registryVars, parseVars, graphVars, taggerVars>>

\* llm.apredict raises another error (timeout, transport): _aextract raises,
\* gather hands the first such exception to acall; the other jobs go on
ExtractError(k) ==
    /\ k \in 1..Len(nodes)
    /\ job[k] = "inflight"
    /\ job' = [job EXCEPT ![k] = "failed"]
    /\ acall_pc' = IF acall_pc = "gathering" THEN "raised" ELSE acall_pc
    /\ UNCHANGED <<nodes, metadata, results, acall_ret, storeSide, registryVars, parseVars, graphVars, taggerVars>>

NextExtract ==
    \/ AcallStart
    \/ \E k \in 1..MaxChunks :
         \/ JobStart(k)
         \/ ExtractValueError(k)
         \/ ExtractReturn(k)
         \/ ExtractError(k)

SpecExtract == Init /\ [][NextExtract]_vars

TaskStep(t) ==
    \/ CallBuild(t)
    \/ CallGetCommunitySummaries(t)
    \/ CallQuery(t)
    \/ RetrieveReturn(t)
    \/ RetrieveFail(t)
    \/ SummaryReturn(t)
    \/ SummaryFail(t)
    \/ AnswerReturn(t)
    \/ AnswerFail(t)
    \/ AggregateReturn(t)
    \/ AggregateFail(t)
    \/ Done(t)

Next ==
    \/ PersistTriplet
    \/ \E t \in Tasks : TaskStep(t)

Spec == Init /\ [][Next]_vars

\* direct calls of aggregate_answers, one at a time
NextAggregate ==
    \/ CallAggregate(1)
    \/ AggregateReturn(1)
    \/ AggregateFail(1)
    \/ Done(1)

SpecAggregate == Init /\ [][NextAggregate]_vars

SpecParse == InitParse /\ [][CallParseFn]_vars

SpecGraph == InitGraph /\ [][CallCreateNxGraph]_vars

SpecRegistry == Init /\ [][NextRegistry]_vars

SpecRegistrySolo == Init /\ [][NextRegistrySolo]_vars

\* build_communities called on its own, on a graph persisted before
InitBuild ==
    /\ triplets \in BuildFeeds
    /\ leiden_max = MaxLevelAssignments
    /\ CachesInit
    /\ ExtractInit
    /\ RegistryInit
    /\ ParseInit
    /\ GraphInit
    /\ TaggerInit

NextBuild ==
    \/ CallBuild(1)
    \/ SummaryReturn(1)
    \/ SummaryFail(1)
    \/ Done(1)

SpecBuild == InitBuild /\ [][NextBuild]_vars

\* the caches as earlier builds left them: empty, filled by a finished
\* build with one or with two clusters, and partly filled by a failed one
EarlierBuilds ==
    { [entity_info |-> EmptyMap, community_summary |-> <<>>],
      [entity_info |-> [n \in {"A", "B"} |-> {0}],
       community_summary |-> << <<0, <<"s1">>>> >>],
      [entity_info |-> ("A" :> {0}) @@ ("B" :> {1}),
       community_summary |-> << <<0, <<"s1">>>>, <<1, <<"s1">>>> >>],
      [entity_info |-> ("A" :> {0}) @@ ("B" :> {1}),
       community_summary |-> << <<0, <<"s1">>>> >>] }

\* build_communities called on a store that has caches of earlier builds,
\* on the graph the database holds now, which may be empty
InitRebuild ==
    /\ triplets \in BuildFeeds \cup {<<>>}
    /\ leiden_max = MaxLevelAssignments
    /\ \E b \in EarlierBuilds :
          /\ entity_info = b.entity_info
          /\ community_summary = b.community_summary
    /\ pc = [t \in Tasks |-> "idle"]
    /\ req = [t \in Tasks |-> "none"]
    /\ ret = [t \in Tasks |-> NoneVal]
    /\ community_info = [t \in Tasks |-> <<>>]
    /\ sum_pos = [t \in Tasks |-> 0]
    /\ build_ei = [t \in Tasks |-> EmptyMap]
    /\ build_cs = [t \in Tasks |-> <<>>]
    /\ entities = [t \in Tasks |-> {}]
    /\ community_ids = [t \in Tasks |-> {}]
    /\ it_pos = [t \in Tasks |-> 0]
    /\ it_len = [t \in Tasks |-> 0]
    /\ community_answers = [t \in Tasks |-> <<>>]
    /\ calls = [t \in Tasks |-> <<>>]
    /\ was_empty = [t \in Tasks |-> FALSE]
    /\ response = [t \in Tasks |-> <<>>]
    /\ ExtractInit
    /\ RegistryInit
    /\ ParseInit
    /\ GraphInit
    /\ TaggerInit

SpecRebuild == InitRebuild /\ [][NextBuild]_vars

\* a tagger built with some existing tags
InitTagger ==
    /\ StoreInit
    /\ ExtractInit
    /\ RegistryInit
    /\ ParseInit
    /\ GraphInit
    /\ existing_tags \in TagLists(MaxExistingTags)
    /\ tags = <<>>
    /\ unique_tags = NoTags
    /\ TaggerIdle

SpecTagger == InitTagger /\ [][NextTagger]_vars

\* a caller has tags to clean, for a tagger with some existing tags
InitTags ==
    /\ StoreInit
    /\ ExtractInit
    /\ RegistryInit
    /\ ParseInit
    /\ GraphInit
    /\ existing_tags \in TagLists(MaxExistingTags)
    /\ tags \in TagLists(MaxTags)
    /\ unique_tags = NoTags
    /\ TaggerIdle

SpecTags == InitTags /\ [][CallRemoveDuplicateTags]_vars

\* one request at a time: no two calls overlap
NextSolo ==
    \/ PersistTriplet
    \/ TaskStep(1)

SpecSolo == Init /\ [][NextSolo]_vars

(***************************************************************************)
(* Properties of the community caches.                                     *)
(***************************************************************************)
Clusters(t) == DictKeys(community_info[t])

\* a dict as a mapping: two dicts are equal whatever their insertion order
DictAsMap(d) == [k \in DictKeys(d) |-> DictGet(d, k)]

HasClustered(t) == CountCalls(calls[t], "cluster") > 0

\* C1: while a build_communities call is suspended at a summarization call,
\* the store never shows that build's membership map together with a
\* summary cache that lacks some of that build's clusters.
C1_RebuildNotPartlyVisible ==
    \A t \in Tasks :
        pc[t] = "summarizing" /\ entity_info = build_ei[t]
            => Clusters(t) \subseteq DictKeys(community_summary)

\* C2: after a build_communities call that completes on a non-empty graph,
\* with no other call overlapping it, entity_info holds that call's
\* assignments and community_summary has exactly one entry per cluster of
\* that call: no entry of an earlier build survives.
C2_RebuildReplacesCaches ==
    \A t \in Tasks :
        req[t] = "build" /\ pc[t] = "returned" /\ HasClustered(t)
            => /\ entity_info = build_ei[t]
               /\ DictKeys(community_summary) = Clusters(t)

\* C3: when two get_community_summaries calls that both found the cache
\* empty have returned, each has called build_communities once and the
\* caches are the complete output of one of the two builds.
C3_LastWriterWins ==
    \A t, u \in Tasks :
        (/\ t # u
         /\ req[t] = "gcs" /\ was_empty[t] /\ pc[t] = "returned"
         /\ req[u] = "gcs" /\ was_empty[u] /\ pc[u] = "returned")
            => /\ CountCalls(calls[t], "build") = 1
               /\ CountCalls(calls[u], "build") = 1
               /\ \E w \in {t, u} : /\ entity_info = build_ei[w]
                                    /\ DictAsMap(community_summary) =
                                          DictAsMap(build_cs[w])

\* C4: after an acustom_query that failed, with no other call overlapping
\* it, the caches are unchanged or hold one complete rebuild: if the query's
\* lazy build replaced the membership map, every cluster of that build has
\* its summary.
C4_FailedQueryKeepsCachesWhole ==
    \A t \in Tasks :
        req[t] = "query" /\ pc[t] = "raised" /\ HasClustered(t)
            => /\ entity_info = build_ei[t]
               /\ DictKeys(build_cs[t]) = Clusters(t)
               /\ Clusters(t) \subseteq DictKeys(community_summary)

\* C6: a failing summarization call is not propagated to the caller of
\* build_communities.
C6_BuildSwallowsSummaryFailure ==
    \A t \in Tasks : req[t] = "build" => pc[t] # "raised"

\* C9: get_community_summaries calls build_communities exactly once when
\* the cache is empty at the time of the call and not at all otherwise, and
\* what it returns is the store's summary cache.
C9_LazyBuildOnce ==
    [][\A t \in Tasks :
          /\ CountCalls(calls'[t], "gcs") > 0
                => CountCalls(calls'[t], "build") = IF was_empty'[t] THEN 1 ELSE 0
          /\ (req'[t] = "gcs" /\ pc[t] # "returned" /\ pc'[t] = "returned")
                => ret'[t] = [kind |-> "dict", val |-> community_summary']
      ]_vars

\* two finished calls, one on an empty cache and one on a non-empty cache
C9_Witness ==
    \E t, u \in Tasks :
        /\ req[t] = "gcs" /\ pc[t] = "returned" /\ was_empty[t]
        /\ CountCalls(calls[t], "build") = 1
        /\ req[u] = "gcs" /\ pc[u] = "returned" /\ ~was_empty[u]
        /\ ret[u].val # <<>>

\* C10: on a store whose graph has no triplet, build_communities calls
\* leave entity_info and community_summary empty, call neither the
\* clustering collaborator nor the LLM, and do not raise.
C10_EmptyGraphNoOp ==
    triplets = <<>>
        => /\ entity_info = EmptyMap
           /\ community_summary = <<>>
           /\ \A t \in Tasks :
                 /\ pc[t] # "summarizing"
                 /\ req[t] = "build"
                      => /\ pc[t] = "returned"
                         /\ CountCalls(calls[t], "cluster") = 0
                         /\ CountCalls(calls[t], "summary") = 0

\* two consecutive build_communities calls on the empty graph have returned
C10_Witness ==
    /\ triplets = <<>>
    /\ \A t \in {1, 2} : req[t] = "build" /\ pc[t] = "returned"

\* the list of (node, cluster) items the clustering collaborator returned
\* to the build of task t
Assigned(t) ==
    LET i == CHOOSE j \in 1..Len(calls[t]) : calls[t][j].op = "cluster"
    IN  calls[t][i].arg

\* C15: once build_communities has clustered, and when it has completed,
\* entity_info maps every node to the ids of exactly the clusters the
\* clustering assigned it: all of them for a node assigned several times,
\* and no entity or id that comes from no assignment.
C15_MembershipIsTheAssignments ==
    \A t \in Tasks :
        req[t] = "build" /\ HasClustered(t)
            => LET items == Assigned(t) IN
               /\ \A i \in 1..Len(items) :
                     /\ items[i][1] \in DOMAIN entity_info
                     /\ items[i][2] \in entity_info[items[i][1]]
               /\ \A n \in DOMAIN entity_info : \A c \in entity_info[n] :
                     \E i \in 1..Len(items) : items[i] = <<n, c>>

\* a build has completed in which node A was assigned to two clusters
C15_Witness ==
    \E t \in Tasks :
        /\ req[t] = "build" /\ pc[t] = "returned" /\ HasClustered(t)
        /\ \E i, j \in 1..Len(Assigned(t)) :
              /\ Assigned(t)[i][1] = "A" /\ Assigned(t)[j][1] = "A"
              /\ Assigned(t)[i][2] # Assigned(t)[j][2]
        /\ Cardinality(DOMAIN entity_info) > 1

\* the nodes the clustering assigned to cluster c in the build of task t
MembersOf(t, c) ==
    { Assigned(t)[i][1] : i \in { j \in 1..Len(Assigned(t)) :
                                    Assigned(t)[j][2] = c } }

\* the relation persisted last between the two entities of triplet tr
LastRelationOn(tr) ==
    LET same == { i \in 1..Len(triplets) :
                    {triplets[i][1], triplets[i][4]} = {tr[1], tr[4]} }
    IN  triplets[CHOOSE i \in same : \A j \in same : j <= i]

\* the entities that share an edge of the persisted graph with entity n
NeighborsOf(n) ==
    { m \in {"A", "B", "C"} :
        \E i \in 1..Len(triplets) : {triplets[i][1], triplets[i][4]} = {n, m} }

\* the lines of cluster c in the community_info of the build of task t
Bucket(t, c) ==
    IF DictHas(community_info[t], c) THEN DictGet(community_info[t], c) ELSE <<>>

\* how many lines of cluster c go from entity n to entity m
LinesFromTo(t, c, n, m) ==
    Cardinality({ k \in 1..Len(Bucket(t, c)) :
                    Bucket(t, c)[k][1] = n /\ Bucket(t, c)[k][2] = m })

\* C25: _collect_community_info appends, for each (node, cluster)
\* assignment and each neighbor of the node, exactly one line
\* node -> neighbor -> label -> description to the bucket of that cluster,
\* and no other line: an edge has one line per endpoint in a cluster that
\* holds both its endpoints, and one line in each of the two clusters when
\* its endpoints are in different clusters.
C25_OneLinePerAssignmentAndNeighbor ==
    \A t \in Tasks :
        req[t] = "build" /\ HasClustered(t)
            => \A c \in ClusterIds :
                 /\ \A n, m \in {"A", "B", "C"} :
                       LinesFromTo(t, c, n, m) =
                          IF n \in MembersOf(t, c) /\ m \in NeighborsOf(n)
                          THEN 1 ELSE 0
                 /\ \A k \in 1..Len(Bucket(t, c)) :
                       LET line == Bucket(t, c)[k]
                           tr   == LastRelationOn(<<line[1], "", "", line[2]>>)
                       IN  /\ line[3] = tr[2]
                           /\ line[4] = PropGet(tr[3], "relationship_description", "")
                 /\ \A n, m \in {"A", "B", "C"} :
                       (n # m /\ m \in NeighborsOf(n))
                          => LinesFromTo(t, c, n, m) + LinesFromTo(t, c, m, n)
                                = Cardinality({n, m} \cap MembersOf(t, c))

\* a build has collected the lines of an edge whose endpoints are in
\* different clusters, and of an edge with both endpoints in one cluster
C25_Witness ==
    \E t \in Tasks :
        /\ req[t] = "build" /\ HasClustered(t)
        /\ \E c, d \in ClusterIds :
              /\ c # d
              /\ "A" \in MembersOf(t, c) /\ "A" \notin MembersOf(t, d)
              /\ "B" \in MembersOf(t, d) /\ "B" \notin MembersOf(t, c)
              /\ "C" \in MembersOf(t, d)
              /\ LinesFromTo(t, c, "A", "B") = 1 /\ LinesFromTo(t, d, "B", "A") = 1
              /\ LinesFromTo(t, d, "B", "C") = 1 /\ LinesFromTo(t, d, "C", "B") = 1

\* C16: a build_communities call calls the summary LLM exactly once per
\* cluster, with a text that contains, for every edge incident to a node of
\* the cluster, the label of its relation and the description that
\* GraphRAGExtractor recorded for that relation.
C16_SummaryTextHasLabelsAndDescriptions ==
    \A t \in Tasks :
        req[t] = "build" /\ HasClustered(t)
            => /\ \A k \in 1..Len(calls[t]) :
                     calls[t][k].op = "summary"
                        => \A i \in 1..Len(triplets) :
                             ({triplets[i][1], triplets[i][4]}
                                  \cap MembersOf(t, calls[t][k].cid) # {})
                                => LET r == LastRelationOn(triplets[i]) IN
                                   \E d \in 1..Len(calls[t][k].arg) :
                                      /\ calls[t][k].arg[d][3] = r[2]
                                      /\ calls[t][k].arg[d][4] =
                                            r[3].relation_description
               /\ pc[t] = "returned"
                     => \A c \in { Assigned(t)[i][2] : i \in 1..Len(Assigned(t)) } :
                          Cardinality({ k \in 1..Len(calls[t]) :
                                          /\ calls[t][k].op = "summary"
                                          /\ calls[t][k].cid = c }) = 1

(***************************************************************************)
(* Properties of GraphRAGQueryEngine.acustom_query.                        *)
(***************************************************************************)
ChatOps == {"summary", "answer", "aggregate"}

ChatCalls(log) == Cardinality({ i \in 1..Len(log) : log[i].op \in ChatOps })

IsAnswerCall(c) == c.op = "answer"

\* the community ids of the answer-generation calls of a log, in call order
AnswerCids(log) ==
    LET answer_calls == SelectSeq(log, IsAnswerCall) IN
    [i \in 1..Len(answer_calls) |-> answer_calls[i].cid]

\* the keys of the first len entries of the cache cs that are in cids, in
\* the iteration order of the cache
MatchingKeys(cs, cids, len) ==
    LET InCids(kv) == kv[1] \in cids
        hits == SelectSeq(SubSeq(cs, 1, len), InCids)
    IN  [i \in 1..Len(hits) |-> hits[i][1]]

IsPrefix(s, u) == Len(s) <= Len(u) /\ s = SubSeq(u, 1, Len(s))

FallbackText == [kind |-> "text", val |-> Fallback]

\* the query of task t has gone past retrieval
PastRetrieval(t) == req[t] = "query" /\ CountCalls(calls[t], "gcs") > 0

\* C11: a query whose retrieved nodes contain no line matching the pattern
\* (get_entities returns no entity) returns the fallback string, and issues
\* no LLM chat call, whatever the state of the store.
C11_NoEntityNoChatCall ==
    \A t \in Tasks :
        PastRetrieval(t) /\ entities[t] = {}
            => /\ pc[t] = "returned"
               /\ ret[t] = FallbackText
               /\ ChatCalls(calls[t]) = 0

\* C12: a query that found the summary cache non-empty issues one
\* answer-generation call per cache entry whose id is in community_ids, in
\* the iteration order of the cache, and then exactly one aggregation call
\* over the answers if there is at least one answer; with no answer it
\* returns the fallback string and has issued no chat call at all.
C12_OneAnswerPerMatchingEntry ==
    \A t \in Tasks :
        PastRetrieval(t) /\ ~was_empty[t]
            => LET want == MatchingKeys(community_summary, community_ids[t],
                                        it_len[t])
                   got  == AnswerCids(calls[t])
               IN
               /\ CountCalls(calls[t], "summary") = 0
               /\ IsPrefix(got, want)
               /\ pc[t] = "answering" => calls[t][Len(calls[t])].op = "answer"
               /\ CountCalls(calls[t], "aggregate") > 0
                     => /\ got = want
                        /\ got # <<>>
                        /\ CountCalls(calls[t], "aggregate") = 1
                        /\ LET last == IF pc[t] = "raised"
                                        THEN Len(calls[t]) - 1
                                        ELSE Len(calls[t])
                           IN  calls[t][last] =
                                 Call("aggregate", -1,
                                      AggregateUserContent(community_answers[t]))
                        /\ Len(community_answers[t]) = Len(got)
               /\ pc[t] = "returned"
                     => /\ got = want
                        /\ IF want = <<>>
                           THEN ret[t] = FallbackText /\ ChatCalls(calls[t]) = 0
                           ELSE /\ CountCalls(calls[t], "aggregate") = 1
                                /\ ret[t].kind = "text"

\* a query on a cache of two entries has answered from the one community of
\* its entities and aggregated
C12_Witness ==
    \E t \in Tasks :
        /\ PastRetrieval(t) /\ ~was_empty[t] /\ pc[t] = "returned"
        /\ it_len[t] = 2
        /\ AnswerCids(calls[t]) = <<0>>
        /\ CountCalls(calls[t], "aggregate") = 1

\* C17: no step of a query changes entity_info or community_summary, except
\* the steps of the build_communities call that its
\* get_community_summaries call triggers on an empty cache: the assignment
\* of the new membership map and the storing of one summary per cluster.
C17_QueryChangesCachesOnlyByBuild ==
    [][\A t \in Tasks :
          req[t] = "query" /\ req'[t] = "query"
             => /\ entity_info' # entity_info
                   => /\ pc[t] = "retrieving" /\ was_empty'[t]
                      /\ CountCalls(calls'[t], "build") = 1
                      /\ entity_info' = build_ei'[t]
                /\ community_summary' # community_summary
                   => /\ pc[t] = "summarizing" /\ was_empty[t]
                      /\ community_summary' =
                            DictSet(community_summary,
                                    community_info[t][sum_pos[t]][1],
                                    CleanResponse(response'[t]))
      ]_vars

\* a query has run all its steps, two answer calls and the aggregation
C17_Witness ==
    \E t \in Tasks :
        /\ req[t] = "query" /\ pc[t] = "returned"
        /\ AnswerCids(calls[t]) = <<0, 1>>
        /\ ret[t].kind = "text" /\ ret[t] # FallbackText

\* the calls of a log that are the call c again
SameCalls(log, c) == Cardinality({ i \in 1..Len(log) : log[i] = c })

\* C14: when the retriever or a chat call raises during acustom_query, the
\* query raises: the failed call is not issued again, no later call (no
\* aggregation call in particular) follows it and no text is returned.
C14_CollaboratorErrorFailsQuery ==
    \A t \in Tasks :
        req[t] = "query" /\ CountCalls(calls[t], "error") > 0
            => LET n == Len(calls[t]) IN
               /\ pc[t] = "raised"
               /\ ret[t] = NoneVal
               /\ CountCalls(calls[t], "error") = 1
               /\ calls[t][n].op = "error"
               /\ calls[t][n - 1].op \in {"retrieve"} \cup ChatOps
               /\ SameCalls(calls[t], calls[t][n - 1]) = 1
               /\ calls[t][n - 1].op # "aggregate"
                     => CountCalls(calls[t], "aggregate") = 0

\* a query has failed in its second answer-generation call
C14_Witness ==
    \E t \in Tasks :
        /\ req[t] = "query" /\ pc[t] = "raised"
        /\ calls[t][Len(calls[t])].op = "error"
        /\ AnswerCids(calls[t]) = <<0, 1>>

\* a occurs in msg as a run of consecutive tokens
Contains(msg, a) ==
    \E i \in 1..(Len(msg) + 1) :
        i + Len(a) - 1 <= Len(msg) /\ SubSeq(msg, i, i + Len(a) - 1) = a

AllBlank(s) == \A i \in 1..Len(s) : s[i] = "ws"

\* out is resp without a leading "assistant:" label and without the
\* whitespace around what follows the label
Unlabelled(resp, out) ==
    LET body == IF resp # <<>> /\ Head(resp) = "assistant:"
                THEN Tail(resp) ELSE resp
    IN  /\ \E i, j \in 0..Len(body) :
              /\ i + j <= Len(body)
              /\ AllBlank(SubSeq(body, 1, i))
              /\ AllBlank(SubSeq(body, Len(body) - j + 1, Len(body)))
              /\ out = SubSeq(body, i + 1, Len(body) - j)
        /\ out # <<>> => out[1] # "ws" /\ out[Len(out)] # "ws"

Registered(d, path) ==
    DictHas(uploaded_documents, d) /\ DictGet(uploaded_documents, d) = path

Entries(d) ==
    Cardinality({ i \in 1..Len(uploaded_documents) :
                    uploaded_documents[i][1] = d })

Answered(r, kind, status) ==
    /\ http_req[r].kind = kind
    /\ http_pc[r] = "responded"
    /\ http_status[r] = status

\* C18: an ingest that succeeds removes only the registry entry and the
\* temp file it read when it started: every entry that points to another
\* file, the one of an upload that arrived in the meantime included, is
\* still registered with its file after the ingest has finished.
C18_IngestRemovesOnlyWhatItRead ==
    [][\A r \in Requests :
          (/\ http_req[r].kind = "ingest" /\ http_pc[r] = "pipeline"
           /\ http_pc'[r] = "responded" /\ http_status'[r] = 200)
             => \A i \in 1..Len(uploaded_documents) :
                   uploaded_documents[i][2] # file_path[r]
                      => /\ DictHas(uploaded_documents', uploaded_documents[i][1])
                         /\ DictGet(uploaded_documents', uploaded_documents[i][1])
                               = uploaded_documents[i][2]
                         /\ uploaded_documents[i][2] \in DOMAIN files'
      ]_vars

\* C19: one request at a time.  After an upload with document id d the
\* registry has exactly one entry for d, which points to an existing temp
\* file holding the uploaded bytes, and the temp file of an earlier upload
\* of d is deleted; after a successful ingest of d neither the entry nor
\* its temp file exists.
C19_RegistryLifecycle ==
    \A r \in Requests :
        /\ Answered(r, "upload", 200)
              => /\ Entries(http_req[r].document_id) = 1
                 /\ Registered(http_req[r].document_id, file_path[r])
                 /\ file_path[r] \in DOMAIN files
                 /\ files[file_path[r]] = http_req[r].content
                 /\ old_path[r] \notin DOMAIN files
        /\ Answered(r, "ingest", 200)
              => /\ Entries(http_req[r].document_id) = 0
                 /\ file_path[r] \notin DOMAIN files

\* a document has been uploaded again under the id of an earlier upload
C19_Witness ==
    \E r \in Requests : Answered(r, "upload", 200) /\ old_path[r] # 0

(***************************************************************************)
(* Properties of build_communities as a whole.                             *)
(***************************************************************************)
\* C31: a build_communities call on a graph with no node leaves
\* entity_info and community_summary exactly as they were before the call,
\* also when an earlier build has filled them, and returns.
C31_EmptyGraphBuildKeepsCaches ==
    [][ \A t \in Tasks :
          (pc[t] = "idle" /\ req'[t] = "build" /\ triplets = <<>>)
             => /\ entity_info' = entity_info
                /\ community_summary' = community_summary
                /\ pc'[t] = "returned"
      ]_vars

\* a build has returned on an empty graph with both caches filled
C31_Witness ==
    \E t \in Tasks :
        /\ req[t] = "build" /\ pc[t] = "returned"
        /\ triplets = <<>>
        /\ DOMAIN entity_info = {"A", "B"}
        /\ Len(community_summary) = 2

\* C32: after a build_communities call that has completed on a store that
\* was empty, every community id in the membership list of an entity is a
\* key of community_summary.
C32_EveryMembershipHasSummary ==
    \A t \in Tasks :
        (req[t] = "build" /\ pc[t] = "returned" /\ HasClustered(t))
            => \A e \in DOMAIN entity_info :
                  entity_info[e] \subseteq DictKeys(community_summary)

\* a build has completed on the graph whose one relation goes from an
\* entity to itself, and another with an entity in two clusters
C32_Witness ==
    \E t \in Tasks :
        /\ req[t] = "build" /\ pc[t] = "returned" /\ HasClustered(t)
        /\ triplets[1][1] = triplets[1][4]
        /\ entity_info["A"] = {0, 1}

(***************************************************************************)
(* Properties of a query against builds.                                   *)
(***************************************************************************)
\* C28: when acustom_query runs on a store whose two caches are empty and
\* whose graph is not, and the build that its get_community_summaries call
\* triggers assigns a retrieved entity to a community, the query takes its
\* community ids from the membership map of that build, so that it answers
\* from that community.
C28_LazyBuildMembershipUsed ==
    [][ \A t \in Tasks :
          ( /\ req[t] = "query" /\ pc[t] = "retrieving"
            /\ entity_info = EmptyMap /\ community_summary = <<>>
            /\ triplets # <<>>
            /\ CountCalls(calls'[t], "cluster") > 0 )
             => \A e \in { c \in entities'[t] : c \in DOMAIN entity_info' } :
                   entity_info'[e] \subseteq community_ids'[t]
      ]_vars

\* C29: a query that iterates over the summary cache does not fail when a
\* build_communities call of another request adds or overwrites entries of
\* the cache while the query's LLM calls are in flight: it fails only when
\* one of its collaborator calls fails.
C29_QuerySurvivesConcurrentBuild ==
    \A t \in Tasks :
        (req[t] = "query" /\ pc[t] = "raised")
            => calls[t][Len(calls[t])].op = "error"

\* C30: when a build_communities call has failed after it stored at least
\* one summary, and the caches are as it left them, the next
\* get_community_summaries call runs a new build.
C30_NextCallRebuildsAfterFailedBuild ==
    [][ \A t, u \in Tasks :
          ( /\ req[u] = "build" /\ pc[u] = "raised"
            /\ build_cs[u] # <<>>
            /\ entity_info = build_ei[u]
            /\ DictKeys(community_summary) = DictKeys(build_cs[u])
            /\ pc[t] = "idle" /\ req'[t] = "gcs" )
             => CountCalls(calls'[t], "build") = 1
      ]_vars

(***************************************************************************)
(* Properties of _create_nx_graph.                                         *)
(***************************************************************************)
\* the triplets between the two entities of the pair e, by position
TripletsOn(e) ==
    { i \in 1..Len(triplets) : {triplets[i][1], triplets[i][4]} = e }

\* the description a stored relation carries for _create_nx_graph
StoredDescription(tr) ==
    IF "relationship_description" \in DOMAIN tr[3]
    THEN tr[3].relationship_description
    ELSE ""

\* C24: _create_nx_graph builds an undirected graph in which the triplets
\* between the same two entities, in either direction, are one edge, whose
\* relationship label and description are those of the triplet that comes
\* last among them in get_triplets(): overwritten, not merged.
C24_LaterTripletOverwritesEdge ==
    nx_graph.kind = "returned"
        => LET g == nx_graph.graph IN
           /\ DOMAIN g.edge =
                 { {triplets[i][1], triplets[i][4]} : i \in 1..Len(triplets) }
           /\ \A e \in DOMAIN g.edge :
                 LET last == CHOOSE i \in TripletsOn(e) :
                                 \A j \in TripletsOn(e) : j <= i
                 IN  g.edge[e] = << triplets[last][2],
                                    StoredDescription(triplets[last]) >>
           /\ \A n \in NodeSet(g) :
                 /\ \A i, j \in 1..Len(g.adj[n]) :
                       g.adj[n][i] = g.adj[n][j] => i = j
                 /\ { g.adj[n][i] : i \in 1..Len(g.adj[n]) } =
                       { m \in NodeSet(g) : {n, m} \in DOMAIN g.edge }

\* a graph was built from two triplets between the same two entities in
\* opposite directions, with different labels and descriptions
C24_Witness ==
    /\ nx_graph.kind = "returned"
    /\ \E i, j \in 1..Len(triplets) :
          /\ i < j
          /\ triplets[i][1] = triplets[j][4] /\ triplets[i][4] = triplets[j][1]
          /\ triplets[i][1] # triplets[i][4]
          /\ triplets[i][2] # triplets[j][2]
          /\ StoredDescription(triplets[i]) # StoredDescription(triplets[j])

(***************************************************************************)
(* Properties of retrieve_entity_communities.                              *)
(***************************************************************************)
\* C23: retrieve_entity_communities returns exactly the union, without
\* duplicates, of entity_info[e] over the candidate entities e that are
\* keys of entity_info; a candidate that is no key contributes nothing and
\* causes no error.
C23_CommunityIdsAreTheUnion ==
    [][ \A t \in Tasks :
          (pc[t] = "retrieving" /\ calls'[t] # Append(calls[t], Call("error", -1, <<>>)))
             => /\ pc'[t] # "raised"
                /\ community_ids'[t] =
                      UNION { entity_info[e] :
                                e \in { c \in entities'[t] : c \in DOMAIN entity_info } }
      ]_vars

\* a query whose candidates are an unknown entity and a clustered one
C23_Witness ==
    \E t \in Tasks :
        /\ "Z" \in entities[t]
        /\ \E e \in entities[t] : e \in DOMAIN entity_info
        /\ community_ids[t] # {}

(***************************************************************************)
(* Properties of parse_fn.                                                 *)
(***************************************************************************)
\* the JSON object between the braces of the response
PayloadOf(r) == r[CHOOSE i \in 1..Len(r) : r[i].t = "members"].v

\* the field k of a JSON object, None when the object has no such key
Field(e, k) == IF k \in DOMAIN e THEN e[k] ELSE None

\* C20: for a response whose braces enclose a well-formed JSON object with
\* list-valued entities and relationships, with or without markdown fences
\* around it, parse_fn returns one tuple per element of each list, in
\* order, whose fields equal the fields of the element, None standing for a
\* missing field.
C20_ParseRoundTrip ==
    (response_str \in ParseInputs /\ parse_ret.kind # "none")
        => LET data == PayloadOf(response_str)
               es   == [i \in 1..Len(data.entities.items) |->
                           data.entities.items[i].fields]
               rs   == [i \in 1..Len(data.relationships.items) |->
                           data.relationships.items[i].fields]
           IN
           /\ parse_ret.kind = "returned"
           /\ Len(parse_ret.entities) = Len(es)
           /\ Len(parse_ret.relationships) = Len(rs)
           /\ \A i \in 1..Len(es) :
                 parse_ret.entities[i] =
                    << Field(es[i], "entity_name"),
                       Field(es[i], "entity_type"),
                       Field(es[i], "entity_description") >>
           /\ \A i \in 1..Len(rs) :
                 parse_ret.relationships[i] =
                    << Field(rs[i], "source_entity"),
                       Field(rs[i], "target_entity"),
                       Field(rs[i], "relation"),
                       Field(rs[i], "relationship_description") >>

\* C21: for a response without a brace-delimited region, or whose region
\* is not decodable JSON (the empty string, truncated braces, fenced
\* non-JSON), parse_fn returns two empty lists.
C21_MalformedGivesEmptyLists ==
    (response_str \in MalformedInputs /\ parse_ret.kind # "none")
        => parse_ret = Returned(<<>>, <<>>)

\* parse_fn has returned on an object cut short before its closing brace
C21_Witness ==
    /\ response_str = <<Tok("{"), JsonApple>>
    /\ parse_ret.kind = "returned"

\* C22: parse_fn raises no exception, whatever the response, also when the
\* region decodes to an object whose entities or relationships value is
\* not a list of objects.
C22_ParseNeverRaises == parse_ret.kind # "raised"

\* what parse_fn returns for the object of JsonApple
AppleRecords ==
    Returned(<< << <<"Apple">>, <<"Company">>, <<"A technology company">> >> >>,
             << << <<"Apple">>, <<"California">>, <<"headquartered_in">>,
                   <<"Apple is based in California">> >> >>)

\* C26: when the response holds a well-formed JSON object followed by text
\* that has a closing brace, parse_fn returns the entities and relations
\* of the first balanced object.
C26_FirstBalancedObject ==
    (response_str \in TrailingInputs /\ parse_ret.kind # "none")
        => parse_ret = AppleRecords

(***************************************************************************)
(* Properties of GraphRAGExtractor.acall.                                  *)
(***************************************************************************)
\* C5: an LLM error of any kind in one chunk is not propagated by acall and
\* fails no job.
C5_ChunkFailureIsolated ==
    /\ acall_pc # "raised"
    /\ \A k \in 1..Len(nodes) : job[k] # "failed"

\* C7: at most num_workers extraction calls are in flight at any moment.
C7_InFlightBoundedByNumWorkers == Cardinality(InFlight) <= num_workers

\* C8: acall returns the chunks in the order of its input list, whatever
\* the order in which the jobs finished.
C8_OutputOrderIsInputOrder == acall_pc = "returned" => acall_ret = nodes

\* acall has returned and the second chunk finished before the first
C8_Witness ==
    /\ acall_pc = "returned"
    /\ Len(nodes) >= 2
    /\ results[1][1] = 2

\* C27: _aextract only appends to the chunk it is given: the entity and
\* relation records the chunk already carries are kept, in order, ahead of
\* the new ones, also when the LLM call fails; no record of another chunk
\* changes; and an entity extracted from two chunks is a record of its own
\* in each of them.
C27_AextractOnlyAppends ==
    [][ \A k \in 1..Len(nodes) :
          (job[k] = "inflight" /\ job'[k] # "inflight")
             => /\ \A j \in 1..Len(nodes) : j # k => metadata'[j] = metadata[j]
                /\ IsPrefix(metadata[k].kg_nodes, metadata'[k].kg_nodes)
                /\ IsPrefix(metadata[k].kg_rels, metadata'[k].kg_rels)
                /\ \A i \in (Len(metadata[k].kg_nodes) + 1)..Len(metadata'[k].kg_nodes) :
                      metadata'[k].kg_nodes[i] =
                         EntityNode(<<"Apple">>, <<"Company">>,
                                    <<"A technology company">>)
                /\ job'[k] = "failed" => metadata'[k] = metadata[k]
      ]_vars

\* the first chunk has kept the record it came with ahead of the entity
\* extracted from it, and the second chunk holds the same entity
C27_Witness ==
    /\ Len(nodes) >= 2
    /\ job[1] = "done" /\ job[2] = "done"
    /\ metadata[1].kg_nodes =
          << EntityNode(<<"Pre">>, <<"Concept">>, <<"old">>),
             EntityNode(<<"Apple">>, <<"Company">>, <<"A technology company">>) >>
    /\ metadata[2].kg_nodes =
          << EntityNode(<<"Apple">>, <<"Company">>, <<"A technology company">>) >>
    /\ Len(metadata[1].kg_rels) = 1

(***************************************************************************)
(* Properties of the upload registry under overlapping requests.           *)
(***************************************************************************)
\* the temp paths the registry refers to
RegisteredPaths == { uploaded_documents[i][2] : i \in DOMAIN uploaded_documents }

\* C33: in every reachable state of the registry, under any interleaving
\* of upload and ingest requests, every registry entry points to a temp
\* file that exists, and every temp file that exists is referenced by a
\* registry entry.
C33_NoOrphanedTempFiles ==
    /\ RegisteredPaths \subseteq DOMAIN files
    /\ DOMAIN files \subseteq RegisteredPaths

\* C34: when two ingest requests of the same uploaded document overlap
\* and both run their pipeline to the end, both report success: the
\* request that returns after the other has succeeded on the same temp
\* file succeeds too.
C34_OverlappingIngestsBothSucceed ==
    [][ \A r \in Requests, q \in Requests :
          ( /\ r # q
            /\ IngestReturn(r)
            /\ http_req[q].kind = "ingest"
            /\ http_req[q].document_id = http_req[r].document_id
            /\ file_path[q] = file_path[r]
            /\ http_pc[q] = "responded"
            /\ http_status[q] = 200 )
             => http_status'[r] = 200
      ]_vars

\* C35: an ingest that has failed in a step of its pipeline has reported
\* a failure, and the registry entry and the temp file of its document are
\* in place, so that the same id can be ingested again.
C35_FailedIngestKeepsUpload ==
    \A r \in Requests :
        (http_req[r].kind = "ingest" /\ http_pc[r] = "responded"
           /\ http_status[r] # 404)
            => \/ http_status[r] = 200
               \/ /\ http_status[r] = 500
                  /\ Registered(http_req[r].document_id, file_path[r])
                  /\ file_path[r] \in DOMAIN files

\* an ingest has failed in its pipeline and the upload is still there
C35_Witness ==
    \E r \in Requests :
        /\ http_req[r].kind = "ingest" /\ http_pc[r] = "responded"
        /\ http_status[r] = 500
        /\ Registered(http_req[r].document_id, file_path[r])
        /\ file_path[r] \in DOMAIN files

(***************************************************************************)
(* Properties of AutoTagger.                                               *)
(***************************************************************************)
\* t is the singular or plural of o, or o with all its hyphens or
\* underscores replaced by spaces, or all its spaces by hyphens or underscores
FormOf(t, o) ==
    \/ t = Append(o, "s")
    \/ o = Append(t, "s")
    \/ t \in { replace(o, "-", " "), replace(o, "_", " "),
               replace(o, " ", "-"), replace(o, " ", "_") }

\* out is made of first occurrences of the tags of inp, in their order
FirstOccurrences(out, inp) ==
    \E f \in [1..Len(out) -> 1..Len(inp)] :
        /\ \A k \in 1..Len(out) :
              /\ out[k] = strip(inp[f[k]])
              /\ \A j \in 1..(f[k] - 1) :
                    lower(strip(inp[j])) # lower(out[k])
        /\ \A k \in 1..Len(out), l \in 1..Len(out) : k < l => f[k] < f[l]

\* C36: _remove_duplicate_tags returns a subsequence of its input that
\* keeps first occurrences, in which no tag equals, case and surrounding
\* whitespace ignored, another returned tag or an existing tag, and no tag
\* is the singular or plural of, or obtained by replacing all hyphens or
\* underscores by spaces or all spaces by hyphens or underscores from, an
\* earlier returned tag or an existing tag.
C36_NoDuplicateOrVariantReturned ==
    unique_tags.kind = "returned" =>
        LET out == unique_tags.val
            earlier(i) == { out[j] : j \in 1..(i - 1) }
                             \cup { existing_tags[e] : e \in 1..Len(existing_tags) }
        IN  /\ FirstOccurrences(out, tags)
            /\ \A i \in 1..Len(out), j \in 1..Len(out) :
                  i # j => lower(out[i]) # lower(out[j])
            /\ \A i \in 1..Len(out), e \in 1..Len(existing_tags) :
                  lower(out[i]) # lower(strip(existing_tags[e]))
            /\ \A i \in 1..Len(out) : \A o \in earlier(i) : ~FormOf(out[i], o)

\* the summaries a finished run of the jobs has that are not blank
NonBlankSummaries == SelectSeq(chunk_summaries, LAMBDA t : t # <<>>)

\* C37: AutoTagger.acall lets no error of a collaborator out: a chunk whose
\* summary call has failed has the empty summary, the global summary call
\* is made on the non-empty summaries only, and when every chunk summary
\* is empty acall returns without a global summary call and without a tag
\* call, with summary "" and tags [] on the first chunk.
C37_TaggerAbsorbsErrors ==
    /\ tagger_ret # "raised"
    /\ \A k \in 1..Len(summary_job) :
          summary_job[k] = "failed" => chunk_summaries[k] = <<>>
    /\ \A i \in 1..Len(llm_calls) :
          llm_calls[i].prompt = "global"
             => /\ NonBlankSummaries # <<>>
                /\ llm_calls[i].context = Join(NonBlankSummaries)
    /\ ( /\ tagger_pc = "returned"
         /\ Len(summary_job) > 0
         /\ \A k \in 1..Len(summary_job) : chunk_summaries[k] = <<>> )
          => /\ tagger_ret = "returned"
             /\ \A i \in 1..Len(llm_calls) : llm_calls[i].prompt = "chunk"
             /\ tag_metadata[1] = [set |-> TRUE, summary |-> <<>>, tags |-> <<>>]

\* acall has returned after the summary call of one chunk failed and the
\* other was answered with blanks
C37_Witness ==
    /\ tagger_pc = "returned"
    /\ summary_job = <<"failed", "done">>
    /\ chunk_summaries = << <<>>, <<>> >>
    /\ tag_metadata[1].set

====
